---- MODULE Spec2Model ----
(***************************************************************************)
(* The filesystem service of artera-storage: the path resolver, the folder *)
(* and file operations, the flat listing and the tree, over a POSIX disk.   *)
(*                                                                         *)
(* A string is a sequence of one-character strings; a path is a sequence    *)
(* of segments (each a string), counted from the filesystem root "/".       *)
(* Spec runs the six operations on a disk that holds what the service made  *)
(* (folders and files, no symbolic links); SpecResolve runs the resolver    *)
(* alone on every short string, on disks with and without symbolic links;   *)
(* SpecLinks runs the folder and file operations on a disk that holds a     *)
(* symbolic link beneath the storage root.                                  *)
(***************************************************************************)
EXTENDS Integers, Sequences, FiniteSets, TLC

VARIABLES
    fs,      \* the directory tree on disk: absolute path -> [kind, data]
    pre,     \* the directory tree as it was when the last call started
    last,    \* the last call of the service: operation, arguments, outcome
    result,  \* what the last list_items or get_tree call returned
    raw,     \* resolver run: the string handed to _validate_path
    links,   \* the symbolic links on disk: absolute path -> absolute target
    vres,    \* resolver run: what _validate_path answered
    deleted, \* history: the files delete_file removed, not recreated since
    credentials, \* the bearer credentials of the HTTP request being handled
    procs    \* the calls in progress side by side: caller -> its position

vars == <<fs, pre, last, result, raw, links, vres, deleted, credentials, procs>>

----------------------------------------------------------------------------
(* Bounds of the model *)

\* longest string handed to the resolver run
MaxLen == 3
\* most entries beneath the storage root
MaxEntries == 3

----------------------------------------------------------------------------
(* Status codes raised by the service (fastapi.status) *)

HTTP_200_OK == 200
HTTP_201_CREATED == 201
HTTP_400_BAD_REQUEST == 400
HTTP_404_NOT_FOUND == 404
HTTP_409_CONFLICT == 409
HTTP_500_INTERNAL_SERVER_ERROR == 500

----------------------------------------------------------------------------
(* Python str methods *)

Whitespace == {" "}
Slash == "/"
Backslash == "\\"

RECURSIVE lstrip(_, _)
lstrip(s, cs) ==
    IF s # <<>> /\ Head(s) \in cs THEN lstrip(Tail(s), cs) ELSE s

RECURSIVE rstrip(_, _)
rstrip(s, cs) ==
    IF s # <<>> /\ s[Len(s)] \in cs
    THEN rstrip(SubSeq(s, 1, Len(s) - 1), cs)
    ELSE s

\* str.strip(chars)
strip(s, cs) == rstrip(lstrip(s, cs), cs)

\* sub in s
contains(s, sub) ==
    \E i \in 1..(Len(s) - Len(sub) + 1) : SubSeq(s, i, i + Len(sub) - 1) = sub

\* s.startswith(prefix)
startswith(s, prefix) ==
    Len(s) >= Len(prefix) /\ SubSeq(s, 1, Len(prefix)) = prefix

\* s.split(sep)
RECURSIVE split(_, _)
split(s, sep) ==
    IF \A i \in 1..Len(s) : s[i] # sep
    THEN <<s>>
    ELSE LET i == CHOOSE k \in 1..Len(s) :
                      s[k] = sep /\ \A j \in 1..(k - 1) : s[j] # sep
         IN  <<SubSeq(s, 1, i - 1)>> \o split(SubSeq(s, i + 1, Len(s)), sep)

\* sep.join(parts)
RECURSIVE join(_, _)
join(parts, sep) ==
    IF parts = <<>> THEN <<>>
    ELSE IF Len(parts) = 1 THEN parts[1]
    ELSE parts[1] \o <<sep>> \o join(Tail(parts), sep)

\* s.replace(old, new), old and new one character each
replace(s, old, new) == [i \in 1..Len(s) |-> IF s[i] = old THEN new ELSE s[i]]

----------------------------------------------------------------------------
(* pathlib on POSIX *)

Dot == <<".">>
DotDot == <<".", ".">>

\* Path(__file__).parent.parent, the directory that holds the storage root
project_root == << <<"p">> >>
\* the name of the storage root directory (STORAGE_ROOT)
root_dir == <<"r">>

\* the segments PurePosixPath keeps of a string: no empty segment, no "."
RECURSIVE DropDots(_)
DropDots(segs) ==
    IF segs = <<>> THEN <<>>
    ELSE IF Head(segs) = <<>> \/ Head(segs) = Dot THEN DropDots(Tail(segs))
    ELSE <<Head(segs)>> \o DropDots(Tail(segs))

Parts(s) == DropDots(split(s, Slash))

\* base / s : a string that starts with "/" replaces the base
JoinPath(base, s) ==
    IF startswith(s, <<Slash>>) THEN Parts(s) ELSE base \o Parts(s)

storage_root == JoinPath(project_root, root_dir)

\* Path.resolve(): ".." steps up, a symbolic link is replaced by its target
RECURSIVE resolve_from(_, _, _)
resolve_from(cur, rest, lnk) ==
    IF rest = <<>> THEN cur
    ELSE IF Head(rest) = DotDot
    THEN resolve_from(IF cur = <<>> THEN <<>> ELSE SubSeq(cur, 1, Len(cur) - 1),
                      Tail(rest), lnk)
    ELSE LET nxt == Append(cur, Head(rest))
         IN  resolve_from(IF nxt \in DOMAIN lnk THEN lnk[nxt] ELSE nxt,
                          Tail(rest), lnk)

resolve(path, lnk) == resolve_from(<<>>, path, lnk)

\* path.relative_to(base) does not raise ValueError
IsRelativeTo(path, base) ==
    Len(path) >= Len(base) /\ SubSeq(path, 1, Len(base)) = base

\* path.relative_to(base)
relative_to(path, base) == SubSeq(path, Len(base) + 1, Len(path))

----------------------------------------------------------------------------
(* FilesystemService._validate_path *)

Raise(code) == [ok |-> FALSE, status |-> code, path |-> <<>>]
Return(path) == [ok |-> TRUE, status |-> HTTP_200_OK, path |-> path]

\* relative_path.strip().strip("/").strip("\\")
Normalized(relative_path) ==
    strip(strip(strip(relative_path, Whitespace), {Slash}), {Backslash})

\* a variant of the textual check that lets the volume separator through
TraversalDetected_no_colon(normalized) ==
    \/ contains(normalized, DotDot)
    \/ startswith(normalized, <<Slash>>)

\* the textual check for traversal markers
TraversalDetected(normalized) ==
    \/ contains(normalized, DotDot)
    \/ startswith(normalized, <<Slash>>)
    \/ contains(normalized, <<":">>)

\* the resolved path is still within the resolved storage root
WithinStorageRoot(full_path, lnk) ==
    IsRelativeTo(full_path, resolve(storage_root, lnk))

\* a variant of the empty check that forgets the white space
Blank_empty_only(relative_path) == relative_path = <<>>

\* not relative_path or not relative_path.strip()
Blank(relative_path) ==
    relative_path = <<>> \/ strip(relative_path, Whitespace) = <<>>

_validate_path(relative_path, lnk) ==
    IF Blank(relative_path)
    THEN Raise(HTTP_400_BAD_REQUEST)
    ELSE LET normalized == Normalized(relative_path) IN
         IF TraversalDetected(normalized)
         THEN Raise(HTTP_400_BAD_REQUEST)
         ELSE LET full_path == resolve(JoinPath(storage_root, normalized), lnk) IN
              IF ~WithinStorageRoot(full_path, lnk)
              THEN Raise(HTTP_400_BAD_REQUEST)
              ELSE Return(full_path)

----------------------------------------------------------------------------
(* The directory tree on disk *)

Folder == [kind |-> "folder", data |-> <<>>]
File(bytes) == [kind |-> "file", data |-> bytes]

\* no symbolic link on disk
NoLinks == [p \in {} |-> <<>>]

\* the disk after _ensure_storage_root on a fresh installation
EmptyRoot == [p \in {storage_root} |-> Folder]

\* Path.exists(), Path.is_dir(), Path.is_file() of a resolved path
exists(f, p) == p \in DOMAIN f
is_dir(f, p) == p \in DOMAIN f /\ f[p].kind = "folder"
is_file(f, p) == p \in DOMAIN f /\ f[p].kind = "file"

\* the directories from the storage root down to p, p included
Prefixes(p) == {SubSeq(p, 1, k) : k \in Len(storage_root)..Len(p)}

\* the entries directly inside directory d
Children(f, d) == {q \in DOMAIN f : Len(q) = Len(d) + 1 /\ IsRelativeTo(q, d)}

\* the entries at any depth beneath directory d
Descendants(f, d) == {q \in DOMAIN f : Len(q) > Len(d) /\ IsRelativeTo(q, d)}

\* what a call of the service leaves behind
Outcome(code, f, target) == [status |-> code, fs |-> f, target |-> target]

\* variants of mkdir: exist_ok=False, parents=False without its error, and
\* a mkdir that a file in the way does not stop
mkdir_raises_exist_ok_false(f, p) ==
    exists(f, p) \/ \E q \in Prefixes(p) : is_file(f, q)
mkdir_no_parents(f, p) ==
    [q \in DOMAIN f \cup {p} |-> IF q \in DOMAIN f THEN f[q] ELSE Folder]
mkdir_raises_never(f, p) == FALSE

\* Path.mkdir(parents=True, exist_ok=True): OSError when a file is in the way
mkdir_raises(f, p) == \E q \in Prefixes(p) : is_file(f, q)
mkdir(f, p) ==
    [q \in DOMAIN f \cup Prefixes(p) |-> IF q \in DOMAIN f THEN f[q] ELSE Folder]

\* a variant of rmtree that stops one level down
rmtree_one_level(f, p) ==
    [q \in {x \in DOMAIN f : ~(IsRelativeTo(x, p) /\ Len(x) <= Len(p) + 1)} |-> f[q]]

\* shutil.rmtree(p)
rmtree(f, p) == [q \in {x \in DOMAIN f : ~IsRelativeTo(x, p)} |-> f[q]]

\* a variant of rmdir that removes a directory that still has entries
rmdir_never_raises(f, p) == FALSE

\* Path.rmdir(): OSError unless the directory is empty
rmdir_raises(f, p) == Children(f, p) # {}
rmdir(f, p) == [q \in DOMAIN f \ {p} |-> f[q]]

\* a symbolic link is an entry of the directory it lies in: rmdir finds the
\* directory not empty, and rmtree unlinks the link without following it
HoldsLink(lnk, p) ==
    \E q \in DOMAIN lnk : Len(q) = Len(p) + 1 /\ IsRelativeTo(q, p)
rmtree_links(lnk, p) ==
    [q \in {x \in DOMAIN lnk : ~IsRelativeTo(x, p)} |-> lnk[q]]

\* a variant that removes the other files of the folder as well
unlink_with_siblings(f, p) ==
    LET folder == SubSeq(p, 1, Len(p) - 1)
    IN  [q \in {e \in DOMAIN f : ~(e \in Children(f, folder) /\ is_file(f, e))} |-> f[q]]

\* Path.unlink()
unlink(f, p) == [q \in DOMAIN f \ {p} |-> f[q]]

\* Path.write_bytes(): OSError when the path is a directory
write_raises(f, p) == is_dir(f, p)
write_bytes(f, p, bytes) ==
    [q \in DOMAIN f \cup {p} |-> IF q = p THEN File(bytes) ELSE f[q]]

----------------------------------------------------------------------------
(* FilesystemService: folder and file operations *)

create_folder(f, lnk, relative_path) ==
    LET v == _validate_path(relative_path, lnk) IN
    IF ~v.ok THEN Outcome(v.status, f, <<>>)
    ELSE IF mkdir_raises(f, v.path)
    THEN Outcome(HTTP_500_INTERNAL_SERVER_ERROR, f, v.path)
    ELSE Outcome(HTTP_201_CREATED, mkdir(f, v.path), v.path)

delete_folder(f, lnk, relative_path, recursive) ==
    LET v == _validate_path(relative_path, lnk) IN
    IF ~v.ok THEN Outcome(v.status, f, <<>>)
    ELSE IF ~exists(f, v.path) THEN Outcome(HTTP_404_NOT_FOUND, f, v.path)
    ELSE IF ~is_dir(f, v.path) THEN Outcome(HTTP_400_BAD_REQUEST, f, v.path)
    ELSE IF recursive THEN Outcome(HTTP_200_OK, rmtree(f, v.path), v.path)
    ELSE IF rmdir_raises(f, v.path) \/ HoldsLink(lnk, v.path)
    THEN Outcome(HTTP_409_CONFLICT, f, v.path)
    ELSE Outcome(HTTP_200_OK, rmdir(f, v.path), v.path)

\* the filename checks of upload_file
FilenameEmpty(filename) ==
    filename = <<>> \/ strip(filename, Whitespace) = <<>>

\* a variant of the traversal check that forgets the backslash
FilenameTraversal_no_backslash(filename) ==
    \/ contains(filename, DotDot)
    \/ contains(filename, <<Slash>>)

FilenameTraversal(filename) ==
    \/ contains(filename, DotDot)
    \/ contains(filename, <<Slash>>)
    \/ contains(filename, <<Backslash>>)

\* a variant of the conflict check that does not look at the disk
ConflictDetected_blind(f, file_path, overwrite) == FALSE

\* a variant of the conflict check that reads the flag the wrong way round
ConflictDetected_inverted(f, file_path, overwrite) ==
    exists(f, file_path) /\ overwrite

\* file_path.exists() and not overwrite
ConflictDetected(f, file_path, overwrite) ==
    exists(f, file_path) /\ ~overwrite

\* a variant of save_into that writes the bytes before it looks for a conflict
save_into_writes_first(f, lnk, folder_path, file_content, filename, overwrite) ==
    IF FilenameEmpty(filename) THEN Outcome(HTTP_400_BAD_REQUEST, f, folder_path)
    ELSE IF FilenameTraversal(filename)
    THEN Outcome(HTTP_400_BAD_REQUEST, f, folder_path)
    ELSE LET file_path == JoinPath(folder_path, filename)
             opened == resolve(file_path, lnk)
         IN
         IF write_raises(f, opened)
         THEN Outcome(HTTP_500_INTERNAL_SERVER_ERROR, f, file_path)
         ELSE IF ConflictDetected(f, opened, overwrite)
         THEN Outcome(HTTP_409_CONFLICT, write_bytes(f, opened, file_content),
                      file_path)
         ELSE Outcome(HTTP_201_CREATED, write_bytes(f, opened, file_content),
                      file_path)

\* upload_file once the target folder is known to be a directory. file_path
\* is folder_path / filename as it is, not resolved again: exists() and
\* write_bytes() hand it to the disk, which follows a symbolic link found at
\* that name and so acts on the entry "opened"
save_into(f, lnk, folder_path, file_content, filename, overwrite) ==
    IF FilenameEmpty(filename) THEN Outcome(HTTP_400_BAD_REQUEST, f, folder_path)
    ELSE IF FilenameTraversal(filename)
    THEN Outcome(HTTP_400_BAD_REQUEST, f, folder_path)
    ELSE LET file_path == JoinPath(folder_path, filename)
             opened == resolve(file_path, lnk)
         IN
         IF ConflictDetected(f, opened, overwrite)
         THEN Outcome(HTTP_409_CONFLICT, f, file_path)
         ELSE IF write_raises(f, opened)
         THEN Outcome(HTTP_500_INTERNAL_SERVER_ERROR, f, file_path)
         ELSE Outcome(HTTP_201_CREATED, write_bytes(f, opened, file_content),
                      file_path)

\* a variant of upload_file that creates a missing target folder
upload_file_creates_folder(f, lnk, file_content, relative_folder_path, filename, overwrite) ==
    LET v == _validate_path(relative_folder_path, lnk) IN
    IF ~v.ok THEN Outcome(v.status, f, <<>>)
    ELSE IF mkdir_raises(f, v.path) THEN Outcome(HTTP_400_BAD_REQUEST, f, v.path)
    ELSE save_into(mkdir(f, v.path), lnk, v.path, file_content, filename, overwrite)

upload_file(f, lnk, file_content, relative_folder_path, filename, overwrite) ==
    LET v == _validate_path(relative_folder_path, lnk) IN
    IF ~v.ok THEN Outcome(v.status, f, <<>>)
    ELSE IF ~exists(f, v.path) THEN Outcome(HTTP_404_NOT_FOUND, f, v.path)
    ELSE IF ~is_dir(f, v.path) THEN Outcome(HTTP_400_BAD_REQUEST, f, v.path)
    ELSE save_into(f, lnk, v.path, file_content, filename, overwrite)

delete_file(f, lnk, relative_file_path) ==
    LET v == _validate_path(relative_file_path, lnk) IN
    IF ~v.ok THEN Outcome(v.status, f, <<>>)
    ELSE IF ~exists(f, v.path) THEN Outcome(HTTP_404_NOT_FOUND, f, v.path)
    ELSE IF ~is_file(f, v.path) THEN Outcome(HTTP_400_BAD_REQUEST, f, v.path)
    ELSE Outcome(HTTP_200_OK, unlink(f, v.path), v.path)

----------------------------------------------------------------------------
(* FilesystemService.list_items *)

\* Optional[...] values: None is no value at all
None == {}
Some(x) == {x}
\* the argument None of an Optional[str] parameter
NoPath == <<"None">>

\* ord(c) of the characters that occur in names
Ord(c) ==
    CASE c = " " -> 32 [] c = "." -> 46 [] c = "/" -> 47 [] c = ":" -> 58
      [] c = "A" -> 65 [] c = "B" -> 66 [] c = "C" -> 67 [] c = "\\" -> 92
      [] c = "a" -> 97 [] c = "b" -> 98 [] c = "c" -> 99
      [] c = "e" -> 101 [] c = "g" -> 103 [] c = "i" -> 105 [] c = "l" -> 108
      [] c = "n" -> 110 [] c = "o" -> 111 [] c = "p" -> 112 [] c = "s" -> 115
      [] c = "t" -> 116 [] c = "x" -> 120
      [] OTHER -> 122

\* str.lower()
LowerChar(c) ==
    CASE c = "A" -> "a" [] c = "B" -> "b" [] c = "C" -> "c" [] OTHER -> c
lower(s) == [i \in 1..Len(s) |-> LowerChar(s[i])]

\* s < t, the order of Python strings
RECURSIVE StrLess(_, _)
StrLess(s, t) ==
    IF t = <<>> THEN FALSE
    ELSE IF s = <<>> THEN TRUE
    ELSE IF Ord(Head(s)) # Ord(Head(t)) THEN Ord(Head(s)) < Ord(Head(t))
    ELSE StrLess(Tail(s), Tail(t))

\* k < l for two sort keys, each a tuple (bool or int, str)
KeyLess(k, l) ==
    \/ k[1] < l[1]
    \/ k[1] = l[1] /\ StrLess(k[2], l[2])

\* list.sort(key=...), keys[i] the key of items[i]: a stable sort; the item at
\* position i goes behind every item of a smaller key and behind the earlier
\* items of an equal key
StableSort(items, keys) ==
    LET n == Len(items)
        rank(i) == 1 + Cardinality({j \in 1..n :
                          \/ KeyLess(keys[j], keys[i])
                          \/ ~KeyLess(keys[i], keys[j]) /\ j < i})
    IN  [k \in 1..n |-> items[CHOOSE i \in 1..n : rank(i) = k]]

\* a variant of the key that compares the names as they are written
ItemKey_case_sensitive(x) == <<IF x.type = "file" THEN 1 ELSE 0, x.name>>

\* the key (x["type"] == "file", x["name"].lower()), False before True
ItemKey(x) == <<IF x.type = "file" THEN 1 ELSE 0, lower(x.name)>>

\* items.sort(key=lambda x: (x["type"] == "file", x["name"].lower()))
SortItems(items) == StableSort(items, [i \in 1..Len(items) |-> ItemKey(items[i])])

\* every order in which the entries of a set can come
RECURSIVE Perms(_)
Perms(S) ==
    IF S = {} THEN {<<>>}
    ELSE UNION {{<<x>> \o q : q \in Perms(S \ {x})} : x \in S}

\* the members of seq that lie directly inside directory d, in seq's order
RECURSIVE ChildrenIn(_, _)
ChildrenIn(seq, d) ==
    IF seq = <<>> THEN <<>>
    ELSE IF Len(Head(seq)) = Len(d) + 1 /\ IsRelativeTo(Head(seq), d)
    THEN <<Head(seq)>> \o ChildrenIn(Tail(seq), d)
    ELSE ChildrenIn(Tail(seq), d)

\* the directories rglob visits: d, then each sub-directory's visit in turn
RECURSIVE IterateDirectories(_, _, _)
RECURSIVE VisitEach(_, _, _)
IterateDirectories(f, order, d) == <<d>> \o VisitEach(f, order, ChildrenIn(order, d))
VisitEach(f, order, kids) ==
    IF kids = <<>> THEN <<>>
    ELSE (IF is_dir(f, Head(kids)) THEN IterateDirectories(f, order, Head(kids))
          ELSE <<>>) \o VisitEach(f, order, Tail(kids))

\* Path.iterdir(): the directory's entries, in the order the disk yields them
iterdir(order, d) == ChildrenIn(order, d)

\* Path.rglob("*"): the entries of every visited directory
RECURSIVE EntriesOf(_, _)
EntriesOf(order, dirs) ==
    IF dirs = <<>> THEN <<>>
    ELSE iterdir(order, Head(dirs)) \o EntriesOf(order, Tail(dirs))
rglob(f, order, base) ==
    IF ~is_dir(f, base) THEN <<>>
    ELSE EntriesOf(order, IterateDirectories(f, order, base))

\* str(relative_item_path).replace("\\", "/")
RelativePathStr(item_path) ==
    replace(join(relative_to(item_path, storage_root), Slash), Backslash, Slash)

\* the dictionary list_items builds of one entry
Item(f, item_path) ==
    [name |-> item_path[Len(item_path)],
     type |-> IF is_dir(f, item_path) THEN "folder" ELSE "file",
     relative_path |-> RelativePathStr(item_path),
     size |-> IF is_file(f, item_path) THEN Some(Len(f[item_path].data)) ELSE None]

Listing(code, items) == [status |-> code, items |-> items]

\* order: the order in which the disk yields the entries beneath the base
list_items(f, lnk, relative_path, recursive, order) ==
    LET given == relative_path # NoPath /\ relative_path # <<>>
        v == IF given THEN _validate_path(relative_path, lnk)
             ELSE Return(storage_root)
        base_path == v.path
    IN  IF ~v.ok THEN Listing(v.status, <<>>)
        ELSE IF given /\ ~exists(f, base_path)
        THEN Listing(HTTP_404_NOT_FOUND, <<>>)
        ELSE IF given /\ ~is_dir(f, base_path)
        THEN Listing(HTTP_400_BAD_REQUEST, <<>>)
        ELSE IF ~recursive /\ ~is_dir(f, base_path)
        THEN Listing(HTTP_500_INTERNAL_SERVER_ERROR, <<>>)
        ELSE LET found == IF recursive THEN rglob(f, order, base_path)
                          ELSE iterdir(order, base_path)
                 items == [i \in 1..Len(found) |-> Item(f, found[i])]
             IN  Listing(HTTP_200_OK, SortItems(items))

----------------------------------------------------------------------------
(* FilesystemService.get_tree *)

\* the dictionary get_tree builds of one entry: list_items' plus "parts"
TreeItem(f, item_path) ==
    [name |-> item_path[Len(item_path)],
     type |-> IF is_dir(f, item_path) THEN "folder" ELSE "file",
     relative_path |-> RelativePathStr(item_path),
     size |-> IF is_file(f, item_path) THEN Some(Len(f[item_path].data)) ELSE None,
     parts |-> split(RelativePathStr(item_path), Slash)]

\* the key (len(x["parts"]), x["name"].lower())
DepthKey(x) == <<Len(x.parts), lower(x.name)>>

\* items.sort(key=lambda x: (len(x["parts"]), x["name"].lower()))
SortByDepth(items) == StableSort(items, [i \in 1..Len(items) |-> DepthKey(items[i])])

\* The nodes under construction. Node i is the dictionary made for items[i];
\* children holds node numbers, tree_map maps a relative_path to a node number.
EmptyBuild == [children |-> <<>>, tree_map |-> [k \in {} |-> 0], root_nodes |-> <<>>]

NewChildren(item) == IF item.type = "folder" THEN Some(<<>>) ELSE None

\* a variant of the loop's round that leaves out the last branch: an item
\* whose parent has no node gets a node that hangs nowhere
PlaceItem_drops_orphans(b, items, i) ==
    LET item == items[i]
        path_parts == item.parts
        depth == Len(path_parts) - 1
        parent_path == join(SubSeq(path_parts, 1, Len(path_parts) - 1), Slash)
        mapped == [k \in DOMAIN b.tree_map \cup {item.relative_path} |->
                      IF k = item.relative_path THEN i ELSE b.tree_map[k]]
    IN  IF depth = 0
        THEN [children |-> Append(b.children, NewChildren(item)),
              tree_map |-> mapped,
              root_nodes |-> Append(b.root_nodes, i)]
        ELSE IF parent_path \notin DOMAIN b.tree_map
        THEN [children |-> Append(b.children, NewChildren(item)),
              tree_map |-> mapped,
              root_nodes |-> b.root_nodes]
        ELSE LET parent == b.tree_map[parent_path]
                 had == IF b.children[parent] = None THEN <<>>
                        ELSE CHOOSE c \in b.children[parent] : TRUE
             IN  [children |-> Append([b.children EXCEPT ![parent] = Some(Append(had, i))],
                                      NewChildren(item)),
                  tree_map |-> mapped,
                  root_nodes |-> b.root_nodes]

\* one round of the loop "for item in items", for items[i]
PlaceItem(b, items, i) ==
    LET item == items[i]
        path_parts == item.parts
        depth == Len(path_parts) - 1
        parent_path == join(SubSeq(path_parts, 1, Len(path_parts) - 1), Slash)
        mapped == [k \in DOMAIN b.tree_map \cup {item.relative_path} |->
                      IF k = item.relative_path THEN i ELSE b.tree_map[k]]
    IN  IF depth = 0 \/ parent_path \notin DOMAIN b.tree_map
        THEN [children |-> Append(b.children, NewChildren(item)),
              tree_map |-> mapped,
              root_nodes |-> Append(b.root_nodes, i)]
        ELSE LET parent == b.tree_map[parent_path]
                 had == IF b.children[parent] = None THEN <<>>
                        ELSE CHOOSE c \in b.children[parent] : TRUE
             IN  [children |-> Append([b.children EXCEPT ![parent] = Some(Append(had, i))],
                                      NewChildren(item)),
                  tree_map |-> mapped,
                  root_nodes |-> b.root_nodes]

\* the orphan branch: a child item whose parent path has no node
IsOrphan(b, items, i) ==
    /\ Len(items[i].parts) - 1 # 0
    /\ join(SubSeq(items[i].parts, 1, Len(items[i].parts) - 1), Slash)
           \notin DOMAIN b.tree_map

RECURSIVE BuildTree(_, _)
BuildTree(items, n) ==
    IF n = 0 THEN EmptyBuild ELSE PlaceItem(BuildTree(items, n - 1), items, n)

\* node i as the nested dictionary returned; sort_children has run on it iff reached
RECURSIVE TreeNode(_, _, _, _)
TreeNode(b, items, i, reached) ==
    LET kids == IF b.children[i] = None THEN <<>>
                ELSE CHOOSE c \in b.children[i] : TRUE
        keyed == [k \in 1..Len(kids) |-> [type |-> items[kids[k]].type,
                                          name |-> items[kids[k]].name,
                                          node |-> kids[k]]]
        ordered == IF reached THEN SortItems(keyed) ELSE keyed
    IN  [name |-> items[i].name,
         type |-> items[i].type,
         relative_path |-> items[i].relative_path,
         size |-> items[i].size,
         children |-> IF b.children[i] = None THEN None
                      ELSE Some([k \in 1..Len(ordered) |->
                                   TreeNode(b, items, ordered[k].node,
                                            reached /\ ordered[k].type = "folder")])]

\* a variant of the count that looks at the top level only
CountType_top_level(items, type) ==
    Cardinality({i \in 1..Len(items) : items[i].type = type /\ Len(items[i].parts) = 1})

\* sum(1 for item in items if item["type"] == type)
CountType(items, type) ==
    Cardinality({i \in 1..Len(items) : items[i].type = type})

Tree(code, tree, files, folders) ==
    [status |-> code, tree |-> tree, total_files |-> files, total_folders |-> folders]

\* the items of every entry beneath the base, after items.sort
TreeItems(f, order, base_path) ==
    LET found == rglob(f, order, base_path)
    IN  SortByDepth([i \in 1..Len(found) |-> TreeItem(f, found[i])])

\* order: the order in which the disk yields the entries beneath the base
get_tree(f, lnk, relative_path, order) ==
    LET given == relative_path # NoPath /\ relative_path # <<>>
        v == IF given THEN _validate_path(relative_path, lnk)
             ELSE Return(storage_root)
        base_path == v.path
    IN  IF ~v.ok THEN Tree(v.status, <<>>, 0, 0)
        ELSE IF given /\ ~exists(f, base_path)
        THEN Tree(HTTP_404_NOT_FOUND, <<>>, 0, 0)
        ELSE IF given /\ ~is_dir(f, base_path)
        THEN Tree(HTTP_400_BAD_REQUEST, <<>>, 0, 0)
        ELSE LET items == TreeItems(f, order, base_path)
                 b == BuildTree(items, Len(items))
                 roots == [k \in 1..Len(b.root_nodes) |->
                              TreeNode(b, items, b.root_nodes[k], TRUE)]
             IN  Tree(HTTP_200_OK, SortItems(roots),
                      CountType(items, "file"), CountType(items, "folder"))

----------------------------------------------------------------------------
(* The calls made to the service *)

\* relative paths handed to the operations
PathInputs ==
    { <<"a">>,
      <<"a", "/", "b">>,
      <<"a", "/", "b", "/", "c">>,
      <<"B">>,
      <<".">>,
      <<"/">>,
      <<"/", "a">>,
      <<".", ".", "/", "a">>,
      <<"a", ":">>,
      <<>>,
      <<" ">>,
      <<"a", "\\", "b">> }

\* file names handed to upload_file
FileNames ==
    { <<"b">>,
      <<"B">>,
      <<>>,
      <<" ">>,
      <<".", ".">>,
      <<"a", "/", "b">>,
      <<"a", "\\", "b">> }

\* file contents handed to upload_file
Contents == { <<0>>, <<1, 1>> }

\* the paths list_items and get_tree accept: a string or None
OptionalPathInputs == PathInputs \cup {NoPath}

Call(op, path, filename, data, overwrite, recursive, o) ==
    [op |-> op, path |-> path, filename |-> filename, data |-> data,
     overwrite |-> overwrite, recursive |-> recursive,
     status |-> o.status, target |-> o.target]

NoCall ==
    [op |-> "none", path |-> <<>>, filename |-> <<>>, data |-> <<>>,
     overwrite |-> FALSE, recursive |-> FALSE, status |-> 0, target |-> <<>>]

NoResult == [status |-> 0, items |-> <<>>]
NotRun == [ok |-> FALSE, status |-> 0, path |-> <<>>]

\* no HTTP request at hand, and no calls in progress side by side
NoCredentials == "none"
NoProcs == <<>>

\* the entries beneath the storage root
Entries(f) == DOMAIN f \ {storage_root}
WithinBound(f) == Cardinality(Entries(f)) <= MaxEntries

\* the orders in which the disk may yield the entries a listing walks over
EnumerationOrders(f, lnk, relative_path) ==
    LET given == relative_path # NoPath /\ relative_path # <<>>
        v == IF given THEN _validate_path(relative_path, lnk)
             ELSE Return(storage_root)
    IN  IF v.ok THEN Perms(Descendants(f, v.path)) ELSE {<<>>}

Init ==
    /\ fs = EmptyRoot
    /\ pre = EmptyRoot
    /\ last = NoCall
    /\ result = NoResult
    /\ raw = <<>>
    /\ links = NoLinks
    /\ vres = NotRun
    /\ deleted = {}
    /\ credentials = NoCredentials
    /\ procs = NoProcs

CreateFolder ==
    /\ last = NoCall
    /\ \E p \in PathInputs :
        LET o == create_folder(fs, links, p) IN
        /\ WithinBound(o.fs)
        /\ fs' = o.fs
        /\ pre' = fs
        /\ last' = Call("create_folder", p, <<>>, <<>>, FALSE, FALSE, o)
        /\ result' = NoResult
        /\ UNCHANGED <<raw, links, vres, deleted, credentials, procs>>

DeleteFolder ==
    /\ last = NoCall
    /\ \E p \in PathInputs, recursive \in BOOLEAN :
        LET o == delete_folder(fs, links, p, recursive) IN
        /\ fs' = o.fs
        /\ pre' = fs
        /\ last' = Call("delete_folder", p, <<>>, <<>>, FALSE, recursive, o)
        /\ result' = NoResult
        /\ links' = (IF o.status = HTTP_200_OK /\ recursive
                     THEN rmtree_links(links, o.target) ELSE links)
        /\ UNCHANGED <<raw, vres, deleted, credentials, procs>>

UploadFile ==
    /\ last = NoCall
    /\ \E p \in PathInputs, name \in FileNames, data \in Contents, overwrite \in BOOLEAN :
        LET o == upload_file(fs, links, data, p, name, overwrite) IN
        /\ WithinBound(o.fs)
        /\ fs' = o.fs
        /\ pre' = fs
        /\ last' = Call("upload_file", p, name, data, overwrite, FALSE, o)
        /\ result' = NoResult
        /\ UNCHANGED <<raw, links, vres, deleted, credentials, procs>>

DeleteFile ==
    /\ last = NoCall
    /\ \E p \in PathInputs :
        LET o == delete_file(fs, links, p) IN
        /\ fs' = o.fs
        /\ pre' = fs
        /\ last' = Call("delete_file", p, <<>>, <<>>, FALSE, FALSE, o)
        /\ result' = NoResult
        /\ UNCHANGED <<raw, links, vres, deleted, credentials, procs>>

ListItems ==
    /\ last = NoCall
    /\ \E p \in OptionalPathInputs, recursive \in BOOLEAN :
        \E order \in EnumerationOrders(fs, links, p) :
            LET r == list_items(fs, links, p, recursive, order) IN
            /\ result' = r
            /\ pre' = fs
            /\ last' = Call("list_items", p, <<>>, <<>>, FALSE, recursive,
                            Outcome(r.status, fs, <<>>))
            /\ UNCHANGED <<fs, raw, links, vres, deleted, credentials, procs>>

GetTree ==
    /\ last = NoCall
    /\ \E p \in OptionalPathInputs :
        \E order \in EnumerationOrders(fs, links, p) :
            LET r == get_tree(fs, links, p, order) IN
            /\ result' = r
            /\ pre' = fs
            /\ last' = Call("get_tree", p, <<>>, <<>>, FALSE, FALSE,
                            Outcome(r.status, fs, <<>>))
            /\ UNCHANGED <<fs, raw, links, vres, deleted, credentials, procs>>

\* the handler returns: the response leaves and the service waits for a call
Respond ==
    /\ last # NoCall
    /\ last' = NoCall
    /\ pre' = fs
    /\ result' = NoResult
    /\ UNCHANGED <<fs, raw, links, vres, deleted, credentials, procs>>

Next ==
    \/ CreateFolder
    \/ DeleteFolder
    \/ UploadFile
    \/ DeleteFile
    \/ ListItems
    \/ GetTree
    \/ Respond

Spec == Init /\ [][Next]_vars

----------------------------------------------------------------------------
(* The service with a record of the files it deleted *)

\* the handler returns, and the call is entered in the record: a file that
\* delete_file removed is added, a path that holds an entry again is struck
RespondRecorded ==
    /\ last # NoCall
    /\ last' = NoCall
    /\ pre' = fs
    /\ result' = NoResult
    /\ deleted' = (IF last.op = "delete_file" /\ last.status = HTTP_200_OK
                   THEN deleted \cup {last.target} ELSE deleted) \ DOMAIN fs
    /\ UNCHANGED <<fs, raw, links, vres, credentials, procs>>

NextRecorded ==
    \/ CreateFolder
    \/ DeleteFolder
    \/ UploadFile
    \/ DeleteFile
    \/ ListItems
    \/ GetTree
    \/ RespondRecorded

SpecRecorded == Init /\ [][NextRecorded]_vars

----------------------------------------------------------------------------
(* The two views on their own, over disks the service has made *)

\* the disk after create_folder(path), and after upload_file into folder
WithFolder(f, path) == create_folder(f, NoLinks, path).fs
WithFile(f, folder, name) == upload_file(f, NoLinks, <<0>>, folder, name, TRUE).fs

\* "a/b" is a file in folder a, "a\b" a folder of the storage root
AliasedDisk ==
    LET d1 == WithFolder(EmptyRoot, <<"a">>)
        d2 == WithFile(d1, <<"a">>, <<"b">>)
        d3 == WithFolder(d2, <<"a", "\\", "b">>)
    IN  WithFile(d3, <<"a", "\\", "b">>, <<"b">>)

\* the same, the folder "a\b" holding folder B, which holds file b and folder c
DeepAliasedDisk ==
    LET d1 == WithFolder(EmptyRoot, <<"a">>)
        d2 == WithFile(d1, <<"a">>, <<"b">>)
        d3 == WithFolder(d2, <<"a", "\\", "b", "/", "B", "/", "c">>)
    IN  WithFile(d3, <<"a", "\\", "b", "/", "B">>, <<"b">>)

\* folders a, a/b, a/b/c and B, and files a/B and a/b/b
NestedDisk ==
    LET d1 == WithFolder(EmptyRoot, <<"a", "/", "b", "/", "c">>)
        d2 == WithFolder(d1, <<"B">>)
        d3 == WithFile(d2, <<"a">>, <<"B">>)
    IN  WithFile(d3, <<"a", "/", "b">>, <<"b">>)

SampleDisks == {EmptyRoot, AliasedDisk, DeepAliasedDisk, NestedDisk}

InitViews ==
    /\ fs \in SampleDisks
    /\ pre = fs
    /\ last = NoCall
    /\ result = NoResult
    /\ raw = <<>>
    /\ links = NoLinks
    /\ vres = NotRun
    /\ deleted = {}
    /\ credentials = NoCredentials
    /\ procs = NoProcs

NextViews ==
    \/ ListItems
    \/ GetTree
    \/ Respond

SpecViews == InitViews /\ [][NextViews]_vars

----------------------------------------------------------------------------
(* The HTTP routes: routers/folders.py and routers/files.py *)

HTTP_401_UNAUTHORIZED == 401
HTTP_403_FORBIDDEN == 403
HTTP_422_UNPROCESSABLE_ENTITY == 422

\* the credentials a request may carry: a token the server signed, another
\* token, or no Authorization header at all
Credentials == {"valid", "invalid", "absent"}

\* verify_token: jwt.decode raises InvalidTokenError on any other token
verify_token(token) ==
    IF token = "valid" THEN HTTP_200_OK ELSE HTTP_401_UNAUTHORIZED

\* get_current_user, behind security = HTTPBearer(): no header, no handler
get_current_user(given) ==
    IF given = "absent" THEN HTTP_403_FORBIDDEN ELSE verify_token(given)

\* str(path) of a relative path: "." when it has no segment
str(segs) == IF segs = <<>> THEN <<".">> ELSE join(segs, Slash)

\* str(saved_path.relative_to(storage_root)).replace("\\", "/")
ResponsePath(full_path) ==
    replace(str(relative_to(full_path, storage_root)), Backslash, Slash)

\* the bodies of the responses
MessageResponse(code, path) == [status |-> code, path |-> path]
ListResponse(code, items) ==
    [status |-> code, items |-> items, total_count |-> Len(items)]
TreeResponse(code, tree, files, folders) ==
    [status |-> code, tree |-> tree, total_files |-> files, total_folders |-> folders]
ErrorResponse(code) == [status |-> code]

\* what a route did: the response, the disk it leaves, the path it acted on
Reply(body, f, target) ==
    [status |-> body.status, body |-> body, fs |-> f, target |-> target]

\* POST /api/folders/create
route_create_folder(f, lnk, given, path) ==
    LET user == get_current_user(given) IN
    IF user # HTTP_200_OK THEN Reply(ErrorResponse(user), f, <<>>)
    ELSE IF Len(path) < 1
    THEN Reply(ErrorResponse(HTTP_422_UNPROCESSABLE_ENTITY), f, <<>>)
    ELSE LET o == create_folder(f, lnk, path) IN
         IF o.status # HTTP_201_CREATED
         THEN Reply(ErrorResponse(o.status), o.fs, o.target)
         ELSE Reply(MessageResponse(HTTP_201_CREATED, ResponsePath(o.target)),
                    o.fs, o.target)

\* DELETE /api/folders/delete
route_delete_folder(f, lnk, given, path) ==
    LET user == get_current_user(given) IN
    IF user # HTTP_200_OK THEN Reply(ErrorResponse(user), f, <<>>)
    ELSE IF Len(path) < 1
    THEN Reply(ErrorResponse(HTTP_422_UNPROCESSABLE_ENTITY), f, <<>>)
    ELSE LET o == delete_folder(f, lnk, path, TRUE) IN
         IF o.status # HTTP_200_OK
         THEN Reply(ErrorResponse(o.status), o.fs, o.target)
         ELSE Reply(MessageResponse(HTTP_200_OK, path), o.fs, o.target)

\* POST /api/files/upload
route_upload_file(f, lnk, file_content, folder_path, filename, overwrite) ==
    LET o == upload_file(f, lnk, file_content, folder_path, filename, overwrite) IN
    IF o.status # HTTP_201_CREATED
    THEN Reply(ErrorResponse(o.status), o.fs, o.target)
    ELSE Reply(MessageResponse(HTTP_201_CREATED, ResponsePath(o.target)),
               o.fs, o.target)

\* DELETE /api/files/delete
route_delete_file(f, lnk, file_path) ==
    LET o == delete_file(f, lnk, file_path) IN
    IF o.status # HTTP_200_OK
    THEN Reply(ErrorResponse(o.status), o.fs, o.target)
    ELSE Reply(MessageResponse(HTTP_200_OK, file_path), o.fs, o.target)

\* GET /api/files/list
route_list_files_and_folders(f, lnk, path, recursive, order) ==
    LET r == list_items(f, lnk, path, recursive, order) IN
    IF r.status # HTTP_200_OK THEN Reply(ErrorResponse(r.status), f, <<>>)
    ELSE Reply(ListResponse(HTTP_200_OK, r.items), f, <<>>)

\* build_tree_nodes: children=build_tree_nodes(node["children"])
\*                   if node.get("children") else None
RECURSIVE build_tree_nodes(_)
build_tree_nodes(nodes) ==
    [i \in 1..Len(nodes) |->
        [name |-> nodes[i].name,
         type |-> nodes[i].type,
         relative_path |-> nodes[i].relative_path,
         size |-> nodes[i].size,
         children |-> IF nodes[i].children # None /\ nodes[i].children # Some(<<>>)
                      THEN Some(build_tree_nodes(CHOOSE c \in nodes[i].children : TRUE))
                      ELSE None]]

\* GET /api/files/tree
route_get_tree(f, lnk, path, order) ==
    LET r == get_tree(f, lnk, path, order) IN
    IF r.status # HTTP_200_OK THEN Reply(ErrorResponse(r.status), f, <<>>)
    ELSE Reply(TreeResponse(HTTP_200_OK, build_tree_nodes(r.tree),
                            r.total_files, r.total_folders), f, <<>>)

\* the paths and the file names the requests carry
RoutePaths == { <<"a">>, <<"a", "\\", "b">>, <<"/">>, <<>> }
RouteFileNames == { <<"b">>, <<"a", ":">>, <<"b", " ">> }

\* main.py, startup_event: the storage root and the default folders are
\* made unless they exist; what is on the disk stays
default_folders ==
    << <<"l", "o", "g", "o">>,
       <<"p", "o", "t", "e", "n", "t", "i", "a", "l", "s">> >>
RECURSIVE EnsureFolders(_, _)
EnsureFolders(f, names) ==
    IF names = <<>> THEN f
    ELSE LET folder_path == Append(storage_root, Head(names))
         IN  EnsureFolders(IF exists(f, folder_path) THEN f ELSE mkdir(f, folder_path),
                           Tail(names))
startup_event(f) == EnsureFolders(mkdir(f, storage_root), default_folders)

\* the application starts: first on the fresh disk, later on the disk as the
\* requests left it
InitRoutes ==
    /\ fs = startup_event(EmptyRoot)
    /\ pre = fs
    /\ last = NoCall
    /\ result = NoResult
    /\ raw = <<>>
    /\ links = NoLinks
    /\ vres = NotRun
    /\ deleted = {}
    /\ credentials = NoCredentials
    /\ procs = NoProcs

StartApplication ==
    /\ last = NoCall
    /\ WithinBound(startup_event(fs))
    /\ fs' = startup_event(fs)
    /\ pre' = startup_event(fs)
    /\ UNCHANGED <<last, result, raw, links, vres, deleted, credentials, procs>>

PostFoldersCreate ==
    /\ last = NoCall
    /\ \E given \in Credentials, p \in RoutePaths :
        \E o \in {route_create_folder(fs, links, given, p)} :
        /\ WithinBound(o.fs)
        /\ fs' = o.fs
        /\ pre' = fs
        /\ last' = Call("POST /api/folders/create", p, <<>>, <<>>, FALSE, FALSE, o)
        /\ result' = o.body
        /\ credentials' = given
        /\ UNCHANGED <<raw, links, vres, deleted, procs>>

DeleteFoldersDelete ==
    /\ last = NoCall
    /\ \E given \in Credentials, p \in RoutePaths :
        \E o \in {route_delete_folder(fs, links, given, p)} :
        /\ fs' = o.fs
        /\ pre' = fs
        /\ last' = Call("DELETE /api/folders/delete", p, <<>>, <<>>, FALSE, TRUE, o)
        /\ result' = o.body
        /\ credentials' = given
        /\ UNCHANGED <<raw, links, vres, deleted, procs>>

\* a form field left empty does not reach the handler: folder_path is not ""
PostFilesUpload ==
    /\ last = NoCall
    /\ \E given \in Credentials, p \in RoutePaths \ {<<>>}, name \in RouteFileNames,
          overwrite \in BOOLEAN :
        \E o \in {route_upload_file(fs, links, <<0>>, p, name, overwrite)} :
        /\ WithinBound(o.fs)
        /\ fs' = o.fs
        /\ pre' = fs
        /\ last' = Call("POST /api/files/upload", p, name, <<0>>, overwrite, FALSE, o)
        /\ result' = o.body
        /\ credentials' = given
        /\ UNCHANGED <<raw, links, vres, deleted, procs>>

DeleteFilesDelete ==
    /\ last = NoCall
    /\ \E given \in Credentials, p \in RoutePaths :
        \E o \in {route_delete_file(fs, links, p)} :
        /\ fs' = o.fs
        /\ pre' = fs
        /\ last' = Call("DELETE /api/files/delete", p, <<>>, <<>>, FALSE, FALSE, o)
        /\ result' = o.body
        /\ credentials' = given
        /\ UNCHANGED <<raw, links, vres, deleted, procs>>

GetFilesList ==
    /\ last = NoCall
    /\ \E given \in Credentials, p \in RoutePaths \cup {NoPath}, recursive \in BOOLEAN :
        \E order \in EnumerationOrders(fs, links, p) :
            \E o \in {route_list_files_and_folders(fs, links, p, recursive, order)} :
            /\ pre' = fs
            /\ last' = Call("GET /api/files/list", p, <<>>, <<>>, FALSE, recursive, o)
            /\ result' = o.body
            /\ credentials' = given
            /\ UNCHANGED <<fs, raw, links, vres, deleted, procs>>

GetFilesTree ==
    /\ last = NoCall
    /\ \E given \in Credentials, p \in RoutePaths \cup {NoPath} :
        \E order \in EnumerationOrders(fs, links, p) :
            \E o \in {route_get_tree(fs, links, p, order)} :
            /\ pre' = fs
            /\ last' = Call("GET /api/files/tree", p, <<>>, <<>>, FALSE, FALSE, o)
            /\ result' = o.body
            /\ credentials' = given
            /\ UNCHANGED <<fs, raw, links, vres, deleted, procs>>

\* the response leaves and the server waits for a request
SendResponse ==
    /\ last # NoCall
    /\ last' = NoCall
    /\ pre' = fs
    /\ result' = NoResult
    /\ credentials' = NoCredentials
    /\ UNCHANGED <<fs, raw, links, vres, deleted, procs>>

NextRoutes ==
    \/ StartApplication
    \/ PostFoldersCreate
    \/ DeleteFoldersDelete
    \/ PostFilesUpload
    \/ DeleteFilesDelete
    \/ GetFilesList
    \/ GetFilesTree
    \/ SendResponse

SpecRoutes == InitRoutes /\ [][NextRoutes]_vars

----------------------------------------------------------------------------
(* Two upload_file calls side by side, one system call at a time *)

\* open(file_path, "wb"): the file is created, or cut to no bytes
open_wb(f, p) == write_bytes(f, p, <<>>)

\* write(bytes) on the descriptor just opened: the bytes land at offset 0 and
\* bytes another descriptor wrote beyond them stay
write_at_start(f, p, bytes) ==
    LET had == IF is_file(f, p) THEN f[p].data ELSE <<>>
        kept == IF Len(had) > Len(bytes) THEN SubSeq(had, Len(bytes) + 1, Len(had))
                ELSE <<>>
    IN  write_bytes(f, p, bytes \o kept)

\* upload_file down to file_path = folder_path / filename: 200 stands for
\* "no exception so far", the target is then the file's path
locate_upload(f, lnk, relative_folder_path, filename) ==
    LET v == _validate_path(relative_folder_path, lnk) IN
    IF ~v.ok THEN Outcome(v.status, f, <<>>)
    ELSE IF ~exists(f, v.path) THEN Outcome(HTTP_404_NOT_FOUND, f, v.path)
    ELSE IF ~is_dir(f, v.path) THEN Outcome(HTTP_400_BAD_REQUEST, f, v.path)
    ELSE IF FilenameEmpty(filename) THEN Outcome(HTTP_400_BAD_REQUEST, f, v.path)
    ELSE IF FilenameTraversal(filename) THEN Outcome(HTTP_400_BAD_REQUEST, f, v.path)
    ELSE Outcome(HTTP_200_OK, f, JoinPath(v.path, filename))

\* the two callers, and what each holds of its call
Callers == {1, 2}
Caller(pc, folder, filename, file_path, content, overwrite, code) ==
    [pc |-> pc, folder |-> folder, filename |-> filename, file_path |-> file_path,
     content |-> content, overwrite |-> overwrite, status |-> code]
IdleCaller == Caller("idle", <<>>, <<>>, <<>>, <<>>, FALSE, 0)

\* the folders and names the two uploads are aimed at
UploadFolders == { <<"/">>, <<"a">>, <<"B">> }
UploadNames == { <<"b">>, <<"a">> }

\* the disks the two calls start on
UploadDisks ==
    { WithFolder(EmptyRoot, <<"a">>),
      WithFile(WithFolder(EmptyRoot, <<"a">>), <<"a">>, <<"b">>) }

InitUploads ==
    /\ fs \in UploadDisks
    /\ pre = fs
    /\ last = NoCall
    /\ result = NoResult
    /\ raw = <<>>
    /\ links = NoLinks
    /\ vres = NotRun
    /\ deleted = {}
    /\ credentials = NoCredentials
    /\ procs = [c \in Callers |-> IdleCaller]

\* lines 167-196: the call arrives, the folder and the filename are checked
BeginUpload(c) ==
    /\ procs[c].pc = "idle"
    /\ \E folder \in UploadFolders, name \in UploadNames, content \in Contents,
          overwrite \in BOOLEAN :
        \E o \in {locate_upload(fs, links, folder, name)} :
            procs' = [procs EXCEPT ![c] =
                IF o.status = HTTP_200_OK
                THEN Caller("check", folder, name, o.target, content, overwrite, 0)
                ELSE Caller("done", folder, name, o.target, content, overwrite,
                            o.status)]
    /\ UNCHANGED <<fs, pre, last, result, raw, links, vres, deleted, credentials>>

\* lines 199-203: if file_path.exists() and not overwrite: raise 409
CheckExists(c) ==
    /\ procs[c].pc = "check"
    /\ procs' = [procs EXCEPT ![c] =
           IF ConflictDetected(fs, procs[c].file_path, procs[c].overwrite)
           THEN [procs[c] EXCEPT !.pc = "done", !.status = HTTP_409_CONFLICT]
           ELSE [procs[c] EXCEPT !.pc = "open"]]
    /\ UNCHANGED <<fs, pre, last, result, raw, links, vres, deleted, credentials>>

\* line 207, write_bytes: the file is opened for writing
OpenForWrite(c) ==
    /\ procs[c].pc = "open"
    /\ IF write_raises(fs, procs[c].file_path)
       THEN /\ procs' = [procs EXCEPT ![c] =
                   [procs[c] EXCEPT !.pc = "done",
                                    !.status = HTTP_500_INTERNAL_SERVER_ERROR]]
            /\ fs' = fs
       ELSE /\ procs' = [procs EXCEPT ![c] = [procs[c] EXCEPT !.pc = "write"]]
            /\ fs' = open_wb(fs, procs[c].file_path)
    /\ UNCHANGED <<pre, last, result, raw, links, vres, deleted, credentials>>

\* line 207, write_bytes: the content is written and the call returns
WriteContent(c) ==
    /\ procs[c].pc = "write"
    /\ fs' = write_at_start(fs, procs[c].file_path, procs[c].content)
    /\ procs' = [procs EXCEPT ![c] =
           [procs[c] EXCEPT !.pc = "done", !.status = HTTP_201_CREATED]]
    /\ UNCHANGED <<pre, last, result, raw, links, vres, deleted, credentials>>

NextUploads ==
    \E c \in Callers :
        \/ BeginUpload(c)
        \/ CheckExists(c)
        \/ OpenForWrite(c)
        \/ WriteContent(c)

SpecUploads == InitUploads /\ [][NextUploads]_vars

----------------------------------------------------------------------------
(* list_items(path, recursive=False) beside delete_file and delete_folder
   calls, every call one system call at a time *)

\* what the reader holds of its call: the entries still to visit, the type
\* found for the entry at hand, the items built so far
Reader(pc, path, pending, type, items, code) ==
    [pc |-> pc, path |-> path, pending |-> pending, type |-> type,
     items |-> items, status |-> code]
IdleReader == Reader("idle", <<>>, <<>>, "", <<>>, 0)

\* what the deleter holds of its call: the resolved path and, inside
\* shutil.rmtree, the system calls still to make
Deleter(pc, op, path, recursive, todo, code) ==
    [pc |-> pc, op |-> op, path |-> path, recursive |-> recursive,
     todo |-> todo, status |-> code]
IdleDeleter == Deleter("idle", "none", <<>>, FALSE, <<>>, 0)

\* one system call of shutil.rmtree
SysCall(name, path) == [call |-> name, path |-> path]

\* rmtree inside one directory: for each entry scandir yields, a directory is
\* walked and removed, anything else unlinked
RECURSIVE RemovalPlan(_, _)
RemovalPlan(f, entries) ==
    IF entries = <<>> THEN <<>>
    ELSE (IF is_dir(f, Head(entries))
          THEN <<SysCall("scandir", Head(entries)), SysCall("rmdir", Head(entries))>>
          ELSE <<SysCall("unlink", Head(entries))>>)
         \o RemovalPlan(f, Tail(entries))

\* the dictionary appended for the entry at hand
ItemFound(item_path, type, size) ==
    [name |-> item_path[Len(item_path)],
     type |-> type,
     relative_path |-> RelativePathStr(item_path),
     size |-> size]

\* the loop goes on to the next entry, or to the sort when none is left
NextEntry(r, items) ==
    [r EXCEPT !.pending = Tail(r.pending),
              !.items = items,
              !.pc = IF Len(r.pending) > 1 THEN "is_dir" ELSE "sort"]

\* the disks the read starts on, and the paths of the calls
ReadDisks == { NestedDisk, WithFile(NestedDisk, <<"/">>, <<"b">>) }
ReadPaths == { NoPath, <<"a">> }
DeletedFiles == { <<"b">>, <<"a", "/", "B">> }
DeletedFolders == { <<"a">>, <<"a", "/", "b">>, <<"B">> }

InitReads ==
    /\ fs \in ReadDisks
    /\ pre = fs
    /\ last = NoCall
    /\ result = NoResult
    /\ raw = <<>>
    /\ links = NoLinks
    /\ vres = NotRun
    /\ deleted = {}
    /\ credentials = NoCredentials
    /\ procs = [reader |-> IdleReader, deleter |-> IdleDeleter]

\* lines 258-260, 271: the base path is resolved, or is the storage root
BeginList ==
    /\ procs.reader.pc = "idle"
    /\ \E p \in ReadPaths :
        LET given == p # NoPath /\ p # <<>>
            v == IF given THEN _validate_path(p, links) ELSE Return(storage_root)
        IN  procs' = [procs EXCEPT !.reader =
                IF ~v.ok THEN Reader("done", <<>>, <<>>, "", <<>>, v.status)
                ELSE IF given THEN Reader("exists", v.path, <<>>, "", <<>>, 0)
                ELSE Reader("iterdir", v.path, <<>>, "", <<>>, 0)]
    /\ pre' = fs
    /\ UNCHANGED <<fs, last, result, raw, links, vres, deleted, credentials>>

\* lines 261-265: if not base_path.exists(): raise 404
TestBaseExists ==
    /\ procs.reader.pc = "exists"
    /\ procs' = [procs EXCEPT !.reader =
           IF exists(fs, procs.reader.path)
           THEN [procs.reader EXCEPT !.pc = "base_is_dir"]
           ELSE [procs.reader EXCEPT !.pc = "done", !.status = HTTP_404_NOT_FOUND]]
    /\ UNCHANGED <<fs, pre, last, result, raw, links, vres, deleted, credentials>>

\* lines 266-270: if not base_path.is_dir(): raise 400
TestBaseIsDir ==
    /\ procs.reader.pc = "base_is_dir"
    /\ procs' = [procs EXCEPT !.reader =
           IF is_dir(fs, procs.reader.path)
           THEN [procs.reader EXCEPT !.pc = "iterdir"]
           ELSE [procs.reader EXCEPT !.pc = "done", !.status = HTTP_400_BAD_REQUEST]]
    /\ UNCHANGED <<fs, pre, last, result, raw, links, vres, deleted, credentials>>

\* line 292, base_path.iterdir(): the directory is read in one go, in the
\* order the disk yields; an OSError when it is gone
ReadDirectory ==
    /\ procs.reader.pc = "iterdir"
    /\ IF ~is_dir(fs, procs.reader.path)
       THEN procs' = [procs EXCEPT !.reader =
                [procs.reader EXCEPT !.pc = "done",
                                     !.status = HTTP_500_INTERNAL_SERVER_ERROR]]
       ELSE \E order \in Perms(Children(fs, procs.reader.path)) :
                procs' = [procs EXCEPT !.reader =
                    [procs.reader EXCEPT !.pending = order,
                         !.pc = IF order = <<>> THEN "sort" ELSE "is_dir"]]
    /\ UNCHANGED <<fs, pre, last, result, raw, links, vres, deleted, credentials>>

\* line 297: "folder" if item_path.is_dir() else "file"
TestIsDir ==
    /\ procs.reader.pc = "is_dir"
    /\ procs' = [procs EXCEPT !.reader = [procs.reader EXCEPT
           !.type = IF is_dir(fs, Head(procs.reader.pending)) THEN "folder" ELSE "file",
           !.pc = "is_file"]]
    /\ UNCHANGED <<fs, pre, last, result, raw, links, vres, deleted, credentials>>

\* line 299: ... if item_path.is_file() else None
TestIsFile ==
    /\ procs.reader.pc = "is_file"
    /\ procs' = [procs EXCEPT !.reader =
           IF is_file(fs, Head(procs.reader.pending))
           THEN [procs.reader EXCEPT !.pc = "stat"]
           ELSE NextEntry(procs.reader, Append(procs.reader.items,
                    ItemFound(Head(procs.reader.pending), procs.reader.type, None)))]
    /\ UNCHANGED <<fs, pre, last, result, raw, links, vres, deleted, credentials>>

\* line 299: item_path.stat().st_size, an OSError when the entry is gone
StatSize ==
    /\ procs.reader.pc = "stat"
    /\ procs' = [procs EXCEPT !.reader =
           IF exists(fs, Head(procs.reader.pending))
           THEN NextEntry(procs.reader, Append(procs.reader.items,
                    ItemFound(Head(procs.reader.pending), procs.reader.type,
                              Some(Len(fs[Head(procs.reader.pending)].data)))))
           ELSE [procs.reader EXCEPT !.pc = "done",
                                     !.status = HTTP_500_INTERNAL_SERVER_ERROR]]
    /\ UNCHANGED <<fs, pre, last, result, raw, links, vres, deleted, credentials>>

\* lines 302-305: items.sort(...); return items
ReturnItems ==
    /\ procs.reader.pc = "sort"
    /\ procs' = [procs EXCEPT !.reader =
           [procs.reader EXCEPT !.pc = "done", !.status = HTTP_200_OK]]
    /\ result' = Listing(HTTP_200_OK, SortItems(procs.reader.items))
    /\ UNCHANGED <<fs, pre, last, raw, links, vres, deleted, credentials>>

\* the deleter ends its call with the given status; its locals are gone
DeleterDone(code) == Deleter("done", "none", <<>>, FALSE, <<>>, code)

\* lines 121 and 226: another request calls delete_file or delete_folder and
\* the path is resolved
BeginDelete ==
    /\ procs.reader.pc # "done"
    /\ procs.deleter.pc \in {"idle", "done"}
    /\ \E op \in {"delete_file", "delete_folder"}, recursive \in BOOLEAN :
        \E p \in IF op = "delete_file" THEN DeletedFiles ELSE DeletedFolders :
            /\ op = "delete_file" => ~recursive
            /\ LET v == _validate_path(p, links) IN
               procs' = [procs EXCEPT !.deleter =
                   IF v.ok THEN Deleter("exists", op, v.path, recursive, <<>>, 0)
                   ELSE Deleter("done", op, <<>>, recursive, <<>>, v.status)]
    /\ UNCHANGED <<fs, pre, last, result, raw, links, vres, deleted, credentials>>

\* lines 123-127 and 228-232: if not full_path.exists(): raise 404
TestTargetExists ==
    /\ procs.reader.pc # "done"
    /\ procs.deleter.pc = "exists"
    /\ procs' = [procs EXCEPT !.deleter =
           IF exists(fs, procs.deleter.path)
           THEN [procs.deleter EXCEPT !.pc = "kind"]
           ELSE DeleterDone(HTTP_404_NOT_FOUND)]
    /\ UNCHANGED <<fs, pre, last, result, raw, links, vres, deleted, credentials>>

\* lines 129-133 and 234-238: is_dir() for delete_folder, is_file() for
\* delete_file, 400 otherwise
TestTargetKind ==
    /\ procs.reader.pc # "done"
    /\ procs.deleter.pc = "kind"
    /\ procs' = [procs EXCEPT !.deleter =
           IF procs.deleter.op = "delete_file"
           THEN IF is_file(fs, procs.deleter.path)
                THEN [procs.deleter EXCEPT !.pc = "unlink"]
                ELSE DeleterDone(HTTP_400_BAD_REQUEST)
           ELSE IF ~is_dir(fs, procs.deleter.path)
                THEN DeleterDone(HTTP_400_BAD_REQUEST)
                ELSE IF procs.deleter.recursive
                THEN [procs.deleter EXCEPT !.pc = "rmtree",
                         !.todo = <<SysCall("scandir", procs.deleter.path),
                                    SysCall("rmdir", procs.deleter.path)>>]
                ELSE [procs.deleter EXCEPT !.pc = "rmdir"]]
    /\ UNCHANGED <<fs, pre, last, result, raw, links, vres, deleted, credentials>>

\* line 241: full_path.unlink()
UnlinkFile ==
    /\ procs.reader.pc # "done"
    /\ procs.deleter.pc = "unlink"
    /\ fs' = unlink(fs, procs.deleter.path)
    /\ procs' = [procs EXCEPT !.deleter = DeleterDone(HTTP_200_OK)]
    /\ UNCHANGED <<pre, last, result, raw, links, vres, deleted, credentials>>

\* lines 139, 141-145: full_path.rmdir(), 409 when the folder is not empty
RemoveEmptyFolder ==
    /\ procs.reader.pc # "done"
    /\ procs.deleter.pc = "rmdir"
    /\ IF rmdir_raises(fs, procs.deleter.path)
       THEN /\ fs' = fs
            /\ procs' = [procs EXCEPT !.deleter = DeleterDone(HTTP_409_CONFLICT)]
       ELSE /\ fs' = rmdir(fs, procs.deleter.path)
            /\ procs' = [procs EXCEPT !.deleter = DeleterDone(HTTP_200_OK)]
    /\ UNCHANGED <<pre, last, result, raw, links, vres, deleted, credentials>>

\* the deleter after the system call at the head of its list
AfterSysCall(rest) ==
    IF rest = <<>> THEN DeleterDone(HTTP_200_OK)
    ELSE [procs.deleter EXCEPT !.todo = rest]

\* line 137, shutil.rmtree: a directory is read, in the order the disk yields
RmtreeScandir ==
    /\ procs.reader.pc # "done"
    /\ procs.deleter.pc = "rmtree"
    /\ Head(procs.deleter.todo).call = "scandir"
    /\ \E order \in Perms(Children(fs, Head(procs.deleter.todo).path)) :
           procs' = [procs EXCEPT !.deleter =
               AfterSysCall(RemovalPlan(fs, order) \o Tail(procs.deleter.todo))]
    /\ UNCHANGED <<fs, pre, last, result, raw, links, vres, deleted, credentials>>

\* line 137, shutil.rmtree: a file is unlinked
RmtreeUnlink ==
    /\ procs.reader.pc # "done"
    /\ procs.deleter.pc = "rmtree"
    /\ Head(procs.deleter.todo).call = "unlink"
    /\ fs' = unlink(fs, Head(procs.deleter.todo).path)
    /\ procs' = [procs EXCEPT !.deleter = AfterSysCall(Tail(procs.deleter.todo))]
    /\ UNCHANGED <<pre, last, result, raw, links, vres, deleted, credentials>>

\* line 137, shutil.rmtree: a directory, empty by now, is removed
RmtreeRmdir ==
    /\ procs.reader.pc # "done"
    /\ procs.deleter.pc = "rmtree"
    /\ Head(procs.deleter.todo).call = "rmdir"
    /\ fs' = rmdir(fs, Head(procs.deleter.todo).path)
    /\ procs' = [procs EXCEPT !.deleter = AfterSysCall(Tail(procs.deleter.todo))]
    /\ UNCHANGED <<pre, last, result, raw, links, vres, deleted, credentials>>

NextReads ==
    \/ BeginList
    \/ TestBaseExists
    \/ TestBaseIsDir
    \/ ReadDirectory
    \/ TestIsDir
    \/ TestIsFile
    \/ StatSize
    \/ ReturnItems
    \/ BeginDelete
    \/ TestTargetExists
    \/ TestTargetKind
    \/ UnlinkFile
    \/ RemoveEmptyFolder
    \/ RmtreeScandir
    \/ RmtreeUnlink
    \/ RmtreeRmdir

SpecReads == InitReads /\ [][NextReads]_vars

----------------------------------------------------------------------------
(* The resolver on its own: every short string, on disks with symbolic links *)

Alphabet == {"a", "B", ".", "/", "\\", ":", " "}

Strings(n) == UNION {[1..k -> Alphabet] : k \in 0..n}

Link(at, target) == [p \in {at} |-> target]

\* the symbolic links a disk may hold: none, one beneath the storage root that
\* points outside it, one that points inside it, and the storage root itself
\* being a link to another volume
LinkEnvs ==
    { NoLinks,
      Link(Append(storage_root, <<"B">>), << <<"o">> >>),
      Link(Append(storage_root, <<"B">>), Append(storage_root, <<"a">>)),
      Link(storage_root, << <<"d">> >>) }

InitResolve ==
    /\ fs = EmptyRoot
    /\ pre = EmptyRoot
    /\ last = NoCall
    /\ result = NoResult
    /\ raw \in Strings(MaxLen)
    /\ links \in LinkEnvs
    /\ vres = NotRun
    /\ deleted = {}
    /\ credentials = NoCredentials
    /\ procs = NoProcs

Validate ==
    /\ vres = NotRun
    /\ vres' = _validate_path(raw, links)
    /\ UNCHANGED <<fs, pre, last, result, raw, links, deleted, credentials, procs>>

NextResolve == Validate

SpecResolve == InitResolve /\ [][NextResolve]_vars

----------------------------------------------------------------------------
(* The folder and file operations on a disk that holds a symbolic link *)

\* the links that lie beneath the storage root
LinksBeneathRoot ==
    {l \in LinkEnvs : l # NoLinks /\ storage_root \notin DOMAIN l}

\* the disks the calls start on: the empty storage root, with and without a
\* file outside it at the place the first link points to
LinkedDisks ==
    { EmptyRoot, write_bytes(EmptyRoot, << <<"o">> >>, <<1>>) }

InitLinks ==
    /\ fs \in LinkedDisks
    /\ pre = fs
    /\ last = NoCall
    /\ result = NoResult
    /\ raw = <<>>
    /\ links \in LinksBeneathRoot
    /\ vres = NotRun
    /\ deleted = {}
    /\ credentials = NoCredentials
    /\ procs = NoProcs

NextLinks ==
    \/ CreateFolder
    \/ DeleteFolder
    \/ UploadFile
    \/ DeleteFile
    \/ Respond

SpecLinks == InitLinks /\ [][NextLinks]_vars

----------------------------------------------------------------------------
(* Properties *)

\* the path the last call named, as the resolver answers it on the disk at hand
LastPath == _validate_path(last.path, links)

\* C1: after any sequence of calls the storage root directory still exists;
\* no call of the service deletes the storage root itself.
C1_StorageRootNeverDeleted == is_dir(fs, storage_root)

\* the first part of C2, on the resolver alone: for every input string, a
\* path that _validate_path returns is the storage root or a descendant of
\* it, symbolic links followed.
C2_ValidatedPathWithinRoot ==
    vres.ok =>
        LET root == resolve(storage_root, links) IN
        /\ Len(vres.path) >= Len(root)
        /\ \A k \in 1..Len(root) : vres.path[k] = root[k]

\* a string accepted through a symbolic link that stays inside the storage root
C2_AcceptedThroughLink ==
    /\ vres.ok
    /\ links # NoLinks
    /\ vres.path # resolve(JoinPath(storage_root, Normalized(raw)), NoLinks)

\* the entries the last call created, removed or wrote
C2_Touched ==
    {q \in DOMAIN fs \cup DOMAIN pre :
        q \notin DOMAIN fs \/ q \notin DOMAIN pre \/ fs[q] # pre[q]}

\* C2: the path _validate_path returns for the string a call was given is the
\* storage root or a descendant of it, and so is every entry the call
\* created, wrote or removed and the path it reports, whatever calls came
\* before it.
C2_NothingOutsideRoot ==
    LET root == resolve(storage_root, links) IN
    /\ LastPath.ok => IsRelativeTo(LastPath.path, root)
    /\ \A q \in C2_Touched : IsRelativeTo(q, root)
    /\ last.target # <<>> => IsRelativeTo(last.target, root)

\* C3 as stated: every string that contains "..", starts with "/" or contains
\* ":" is refused with InvalidPath (400).
C3_MarkersAlwaysRefused ==
    (/\ vres # NotRun
     /\ \/ contains(raw, DotDot)
        \/ startswith(raw, <<Slash>>)
        \/ contains(raw, <<":">>))
    => vres = Raise(HTTP_400_BAD_REQUEST)

\* C3 as amended: every string that contains ".." or ":", and every string
\* that still starts with "/" once white space, then slashes, then backslashes
\* are trimmed off both ends, is refused with InvalidPath (400).
C3_MarkersRefusedAfterTrim ==
    (/\ vres # NotRun
     /\ \/ contains(raw, DotDot)
        \/ contains(raw, <<":">>)
        \/ startswith(strip(strip(strip(raw, {" "}), {"/"}), {"\\"}), <<"/">>))
    => vres = Raise(HTTP_400_BAD_REQUEST)

\* a string refused for its volume separator alone
C3_Witness ==
    /\ vres = Raise(HTTP_400_BAD_REQUEST)
    /\ contains(raw, <<":">>)
    /\ ~contains(raw, DotDot)
    /\ ~startswith(raw, <<Slash>>)

\* C4: uploading filename f to a folder that already holds file f fails with
\* Conflict (409) and leaves the bytes alone when overwrite is false, and
\* succeeds with the file holding exactly the new bytes when overwrite is true.
C4_UploadOverwrite ==
    (/\ last.op = "upload_file"
     /\ LastPath.ok
     /\ is_dir(pre, LastPath.path)
     /\ is_file(pre, Append(LastPath.path, last.filename)))
    => LET p == Append(LastPath.path, last.filename) IN
       /\ ~last.overwrite => last.status = HTTP_409_CONFLICT /\ fs = pre
       /\ last.overwrite =>
              /\ last.status = HTTP_201_CREATED
              /\ DOMAIN fs = DOMAIN pre
              /\ fs[p] = [kind |-> "file", data |-> last.data]
              /\ \A q \in DOMAIN pre \ {p} : fs[q] = pre[q]

\* an upload that replaced the bytes of an existing file by other bytes
C4_Witness ==
    /\ last.op = "upload_file"
    /\ last.overwrite
    /\ last.status = HTTP_201_CREATED
    /\ is_file(pre, last.target)
    /\ pre[last.target].data # last.data

\* C5: upload_file never creates its target folder: for a valid folder path it
\* fails with NotFound (404) when the folder does not exist and with
\* NotAFolder (400) when the path names a file, and creates nothing.
C5_UploadNeverCreatesFolder ==
    (last.op = "upload_file" /\ LastPath.ok)
    => /\ LastPath.path \notin DOMAIN pre =>
              last.status = HTTP_404_NOT_FOUND /\ fs = pre
       /\ is_file(pre, LastPath.path) =>
              last.status = HTTP_400_BAD_REQUEST /\ fs = pre

\* an upload aimed at a path that names a file
C5_Witness ==
    /\ last.op = "upload_file"
    /\ LastPath.ok
    /\ is_file(pre, LastPath.path)
    /\ ~FilenameEmpty(last.filename)
    /\ ~FilenameTraversal(last.filename)

\* the file names C6 rules out
C6_BadFilename(name) ==
    \/ \A i \in 1..Len(name) : name[i] = " "
    \/ \E i \in 1..Len(name) : name[i] = "/" \/ name[i] = "\\"
    \/ \E i \in 1..(Len(name) - 1) : name[i] = "." /\ name[i + 1] = "."

\* C6: for an existing target folder, upload_file fails with InvalidPath (400)
\* and writes nothing when the file name is empty or blank, holds "/" or "\"
\* or holds ".."; an upload that succeeds creates or replaces exactly one file,
\* a direct child of the target folder.
C6_UploadFilename ==
    (/\ last.op = "upload_file"
     /\ LastPath.ok
     /\ is_dir(pre, LastPath.path))
    => /\ C6_BadFilename(last.filename) =>
              last.status = HTTP_400_BAD_REQUEST /\ fs = pre
       /\ last.status = HTTP_201_CREATED =>
              \E p \in DOMAIN fs :
                  /\ Len(p) = Len(LastPath.path) + 1
                  /\ SubSeq(p, 1, Len(LastPath.path)) = LastPath.path
                  /\ DOMAIN fs = DOMAIN pre \cup {p}
                  /\ fs[p] = [kind |-> "file", data |-> last.data]
                  /\ \A q \in DOMAIN pre \ {p} : fs[q] = pre[q]

\* an upload into an existing folder refused for a backslash in the file name
C6_Witness ==
    /\ last.op = "upload_file"
    /\ LastPath.ok
    /\ is_dir(pre, LastPath.path)
    /\ last.filename = <<"a", "\\", "b">>
    /\ last.status = HTTP_400_BAD_REQUEST

\* create_folder called once more right after the last call, with the same path
C7_SecondCall == create_folder(fs, links, last.path)

\* C7 as stated: for any valid path, create_folder succeeds twice in
\* succession and the second call leaves the directory state as it was.
C7_CreateTwiceSucceeds ==
    (last.op = "create_folder" /\ LastPath.ok)
    => /\ last.status = HTTP_201_CREATED
       /\ C7_SecondCall.status = HTTP_201_CREATED
       /\ C7_SecondCall.fs = fs

\* no file stands at the path or at one of its intermediate segments
C7_NoFileInTheWay(f, path) ==
    \A k \in Len(storage_root)..Len(path) :
        ~(SubSeq(path, 1, k) \in DOMAIN f /\ f[SubSeq(path, 1, k)].kind = "file")

\* C7 as amended: for any valid path with no existing file at it or at one of
\* its intermediate segments, create_folder succeeds twice in succession and
\* the second call leaves the directory state as it was.
C7_CreateIdempotent ==
    (/\ last.op = "create_folder"
     /\ LastPath.ok
     /\ C7_NoFileInTheWay(pre, LastPath.path))
    => /\ last.status = HTTP_201_CREATED
       /\ C7_SecondCall.status = HTTP_201_CREATED
       /\ C7_SecondCall.fs = fs

\* a create_folder that made a folder that was not there
C7_Witness ==
    /\ last.op = "create_folder"
    /\ last.status = HTTP_201_CREATED
    /\ last.target \notin DOMAIN pre
    /\ is_dir(fs, last.target)

\* the storage root followed by the first k segments of a relative path
C8_PrefixDir(path, k) ==
    storage_root \o SubSeq(Parts(Normalized(path)), 1, k)
C8_PrefixDirs(path) ==
    {C8_PrefixDir(path, k) : k \in 1..Len(Parts(Normalized(path)))}

C8_abc == <<"a", "/", "b", "/", "c">>
C8_FolderItem(name, relative_path) ==
    [name |-> name, type |-> "folder", relative_path |-> relative_path,
     size |-> None]

\* C8: a successful create_folder(s1/.../sn) makes every prefix s1, s1/s2, ...
\* an existing folder and adds, removes or changes no other entry; on an empty
\* root create_folder("a/b/c") and then list_items(recursive) return exactly
\* the folders a, a/b, a/b/c in that order.
C8_CreateMakesPrefixes ==
    /\ (last.op = "create_folder" /\ last.status = HTTP_201_CREATED)
       => /\ \A q \in C8_PrefixDirs(last.path) : is_dir(fs, q)
          /\ DOMAIN fs = DOMAIN pre \cup C8_PrefixDirs(last.path) \cup {storage_root}
          /\ \A q \in DOMAIN pre : fs[q] = pre[q]
    /\ (/\ last.op = "list_items"
        /\ last.path = NoPath
        /\ last.recursive
        /\ fs = create_folder(EmptyRoot, NoLinks, C8_abc).fs)
       => /\ last.status = HTTP_200_OK
          /\ result.items = << C8_FolderItem(<<"a">>, <<"a">>),
                               C8_FolderItem(<<"b">>, <<"a", "/", "b">>),
                               C8_FolderItem(<<"c">>, C8_abc) >>

\* create_folder("a/b/c") on an empty root: three folders made at once
C8_Witness ==
    /\ last.op = "create_folder"
    /\ last.path = C8_abc
    /\ last.status = HTTP_201_CREATED
    /\ pre = EmptyRoot
    /\ Cardinality(DOMAIN fs) = Cardinality(DOMAIN pre) + Len(Parts(C8_abc))

\* C9: delete_folder(p, recursive=true) on an existing folder succeeds and
\* removes exactly p and all its descendants; every other entry is unchanged.
C9_RecursiveDelete ==
    (/\ last.op = "delete_folder"
     /\ last.recursive
     /\ LastPath.ok
     /\ is_dir(pre, LastPath.path))
    => /\ last.status = HTTP_200_OK
       /\ DOMAIN fs = {q \in DOMAIN pre :
                          ~(/\ Len(q) >= Len(LastPath.path)
                            /\ SubSeq(q, 1, Len(LastPath.path)) = LastPath.path)}
       /\ \A q \in DOMAIN fs : fs[q] = pre[q]

\* a recursive delete of a folder beneath the root with entries two levels down
C9_Witness ==
    /\ last.op = "delete_folder"
    /\ last.recursive
    /\ last.status = HTTP_200_OK
    /\ last.target # storage_root
    /\ \E q \in DOMAIN pre : Len(q) >= Len(last.target) + 2 /\ q \notin DOMAIN fs

\* C10: for a valid path, delete_folder fails with NotFound (404) exactly when
\* the path does not exist, with NotAFolder (400) exactly when it is a file,
\* with Conflict (409) exactly when recursive is false and it is a non-empty
\* folder; a non-recursive delete of an empty folder succeeds and removes it.
C10_DeleteFolderErrors ==
    (last.op = "delete_folder" /\ LastPath.ok)
    => LET p == LastPath.path
           nonempty == \E q \in DOMAIN pre : Len(q) > Len(p) /\ SubSeq(q, 1, Len(p)) = p
       IN  /\ last.status = HTTP_404_NOT_FOUND <=> p \notin DOMAIN pre
           /\ last.status = HTTP_400_BAD_REQUEST <=> is_file(pre, p)
           /\ last.status = HTTP_409_CONFLICT <=>
                  (~last.recursive /\ is_dir(pre, p) /\ nonempty)
           /\ (~last.recursive /\ is_dir(pre, p) /\ ~nonempty) =>
                  /\ last.status = HTTP_200_OK
                  /\ DOMAIN fs = DOMAIN pre \ {p}
                  /\ \A q \in DOMAIN fs : fs[q] = pre[q]

\* a non-recursive delete of an empty folder beside another entry
C10_Witness ==
    /\ last.op = "delete_folder"
    /\ ~last.recursive
    /\ last.status = HTTP_200_OK
    /\ last.target # storage_root
    /\ last.target \notin DOMAIN fs
    /\ Cardinality(DOMAIN fs) >= 2

----------------------------------------------------------------------------
(* Properties of delete_file and of the two views *)

\* the path of an entry relative to the storage root, "/" between its segments
PathStr(p) == join(relative_to(p, storage_root), Slash)

\* the relative_path of every node of a forest, at all depths
RECURSIVE TreePaths(_)
TreePaths(nodes) ==
    UNION {{nodes[i].relative_path} \cup
           (IF nodes[i].children = None THEN {}
            ELSE TreePaths(CHOOSE c \in nodes[i].children : TRUE)) :
           i \in 1..Len(nodes)}

\* the last call was a view (list_items or get_tree) and it returned
Listed == last.op = "list_items" /\ last.status = HTTP_200_OK
TreeBuilt == last.op = "get_tree" /\ last.status = HTTP_200_OK

\* the relative_path values the last view reported
ReportedPaths ==
    IF Listed THEN {result.items[i].relative_path : i \in 1..Len(result.items)}
    ELSE IF TreeBuilt THEN TreePaths(result.tree)
    ELSE {}

\* C11: for a valid path p, delete_file(p) fails with NotFound (404) when p
\* does not exist and with NotAFile (400) when p is a directory; otherwise it
\* removes exactly the file p and leaves every other entry as it was.
C11_DeleteFileFrame ==
    (last.op = "delete_file" /\ LastPath.ok)
    => LET p == LastPath.path IN
       /\ ~exists(pre, p) => last.status = HTTP_404_NOT_FOUND /\ fs = pre
       /\ is_dir(pre, p) => last.status = HTTP_400_BAD_REQUEST /\ fs = pre
       /\ is_file(pre, p) =>
              /\ last.status = HTTP_200_OK
              /\ DOMAIN fs = DOMAIN pre \ {p}
              /\ \A q \in DOMAIN fs : fs[q] = pre[q]

\* a file deleted out of a folder that keeps another file
C11_Witness ==
    /\ last.op = "delete_file"
    /\ last.status = HTTP_200_OK
    /\ is_file(pre, last.target)
    /\ ~exists(fs, last.target)
    /\ \E q \in Children(fs, SubSeq(last.target, 1, Len(last.target) - 1)) :
           is_file(fs, q)

\* C12: once delete_file(p) has succeeded, no list_items or get_tree call
\* reports p until an upload or a create_folder puts an entry at p again.
C12_DeletedStaysUnlisted ==
    (Listed \/ TreeBuilt) => \A p \in deleted : PathStr(p) \notin ReportedPaths

\* x may stand before y: not a file before a folder, and of two entries of
\* one kind not the one whose lower-cased name is the greater
MayPrecede(x, y) ==
    /\ ~(x.type = "file" /\ y.type = "folder")
    /\ x.type = y.type => ~StrLess(lower(y.name), lower(x.name))

\* folders precede files, and each kind is in order of lower-cased name
FoldersThenNames(seq) ==
    \A i, j \in 1..Len(seq) : i < j => MayPrecede(seq[i], seq[j])

\* the directory of the example: folder "A", files "a.txt" and "b.txt"
C13_Name(first) == <<first, ".", "t", "x", "t">>
C13_ExampleDisk ==
    LET d1 == create_folder(EmptyRoot, NoLinks, <<"A">>).fs
        d2 == upload_file(d1, NoLinks, <<0>>, <<"/">>, C13_Name("b"), TRUE).fs
    IN  upload_file(d2, NoLinks, <<0>>, <<"/">>, C13_Name("a"), TRUE).fs

\* the names list_items returns for the example, whatever the disk's order
C13_ExampleListed ==
    \A order \in Perms(Entries(C13_ExampleDisk)), recursive \in BOOLEAN :
        LET r == list_items(C13_ExampleDisk, NoLinks, NoPath, recursive, order)
        IN  /\ r.status = HTTP_200_OK
            /\ [i \in 1..Len(r.items) |-> r.items[i].name]
                   = << <<"A">>, C13_Name("a"), C13_Name("b") >>

\* C13: every sequence list_items returns, recursive or not, is ordered as a
\* whole: no file precedes a folder, and entries of one kind are in
\* non-decreasing order of lower-cased name; the entries "b.txt" (file), "A"
\* (folder), "a.txt" (file) come back as "A", "a.txt", "b.txt".
C13_ListOrdered ==
    /\ Listed => FoldersThenNames(result.items)
    /\ C13_ExampleListed

\* a listing of folders and files in which lower-casing decides the order
C13_Witness ==
    /\ Listed
    /\ \E i, j \in 1..Len(result.items) :
           /\ i < j
           /\ result.items[i].type = "folder"
           /\ result.items[j].type = "folder"
           /\ StrLess(result.items[j].name, result.items[i].name)
    /\ \E j \in 1..Len(result.items) : result.items[j].type = "file"

\* the folder a view starts from: the storage root when no path is given
ViewBase == IF last.path = NoPath \/ last.path = <<>> THEN storage_root
            ELSE LastPath.path

\* C14: list_items returns each entry exactly once: all descendants of the
\* base folder when recursive, its direct children when not, never the base
\* itself; every relative_path is the entry's path relative to the storage
\* root with "/" between the segments.
C14_ListsExactlyTheEntries ==
    Listed =>
        LET expected == IF last.recursive THEN Descendants(fs, ViewBase)
                        ELSE Children(fs, ViewBase)
        IN  /\ Len(result.items) = Cardinality(expected)
            /\ ReportedPaths = {PathStr(e) : e \in expected}

\* the number of nodes of one kind in a forest, at all depths
RECURSIVE CountNodes(_, _)
CountNodes(nodes, type) ==
    IF nodes = <<>> THEN 0
    ELSE LET n == Head(nodes)
         IN  (IF n.type = type THEN 1 ELSE 0)
             + (IF n.children = None THEN 0
                ELSE CountNodes(CHOOSE c \in n.children : TRUE, type))
             + CountNodes(Tail(nodes), type)

\* list_items(path, recursive=True) on the disk the last view saw
RecursiveListing(order) == list_items(fs, links, last.path, TRUE, order)

\* C15: on a disk at rest, for every base path (none, or an existing folder)
\* the relative_path values of list_items(path, recursive=True) are those of
\* the nodes of get_tree(path) at all depths, and the forest has as many
\* nodes as the listing has entries: the tree drops and repeats nothing.
C15_TreeFlattensToListing ==
    TreeBuilt =>
        \A order \in EnumerationOrders(fs, links, last.path) :
            LET l == RecursiveListing(order) IN
            /\ l.status = HTTP_200_OK
            /\ {l.items[i].relative_path : i \in 1..Len(l.items)} = ReportedPaths
            /\ Len(l.items) = CountNodes(result.tree, "file")
                                + CountNodes(result.tree, "folder")

\* a tree built from a folder beneath the root, with a node below the top
C15_Witness ==
    /\ TreeBuilt
    /\ ViewBase # storage_root
    /\ Cardinality(ReportedPaths) >= 2
    /\ \E k \in 1..Len(result.tree) :
           /\ result.tree[k].children # None
           /\ result.tree[k].children # Some(<<>>)

\* C16: on a disk at rest, total_files is the number of file nodes and
\* total_folders the number of folder nodes of the forest at all depths, and
\* their sum is the number of entries of list_items(path, recursive=True).
C16_TotalsCountTheNodes ==
    TreeBuilt =>
        /\ result.total_files = CountNodes(result.tree, "file")
        /\ result.total_folders = CountNodes(result.tree, "folder")
        /\ \A order \in EnumerationOrders(fs, links, last.path) :
               result.total_files + result.total_folders
                   = Len(RecursiveListing(order).items)

\* a tree of files and folders, some of them below the top level
C16_Witness ==
    /\ TreeBuilt
    /\ result.total_files >= 1
    /\ result.total_folders >= 2
    /\ Len(result.tree) < result.total_files + result.total_folders

\* every node of a forest, at all depths
RECURSIVE NodesOf(_)
NodesOf(nodes) ==
    UNION {{nodes[i]} \cup
           (IF nodes[i].children = None THEN {}
            ELSE NodesOf(CHOOSE c \in nodes[i].children : TRUE)) :
           i \in 1..Len(nodes)}

\* C17: in every forest get_tree returns, the root-level forest and the
\* children of every folder node at any depth have no file before a folder
\* and each kind in non-decreasing order of lower-cased name.
C17_EveryLevelOrdered ==
    TreeBuilt =>
        /\ FoldersThenNames(result.tree)
        /\ \A n \in NodesOf(result.tree) :
               (n.type = "folder" /\ n.children # None)
               => FoldersThenNames(CHOOSE c \in n.children : TRUE)

\* C18: every node of the forest get_tree returns has children that are not
\* null (a list, empty or not) exactly when it is a folder; a file node has
\* children null.
C18_ChildrenIffFolder ==
    TreeBuilt =>
        \A n \in NodesOf(result.tree) : (n.children # None) <=> (n.type = "folder")

\* C19: list_items and get_tree are functions of the entries on disk: for the
\* same entries beneath the base, the sequence list_items returns and the
\* order of the nodes at every level of get_tree's forest are the same
\* whatever order the directory enumeration yields the entries in.
C19_ViewsIgnoreDiskOrder ==
    /\ Listed =>
           \A order \in EnumerationOrders(fs, links, last.path) :
               list_items(fs, links, last.path, last.recursive, order) = result
    /\ TreeBuilt =>
           \A order \in EnumerationOrders(fs, links, last.path) :
               get_tree(fs, links, last.path, order) = result

\* a string of white space only, the empty string included
C20_OnlyWhitespace(s) == \A i \in 1..Len(s) : s[i] = " "

\* C20: create_folder, delete_folder, upload_file (its folder path) and
\* delete_file fail with InvalidPath (400) when the path is empty or white
\* space only, and change nothing; list_items and get_tree fail with 400 for
\* a path of white space only.
C20_BlankPathRefused ==
    /\ (/\ last.op \in {"create_folder", "delete_folder", "upload_file", "delete_file"}
        /\ C20_OnlyWhitespace(last.path))
       => last.status = HTTP_400_BAD_REQUEST /\ fs = pre
    /\ (/\ last.op \in {"list_items", "get_tree"}
        /\ last.path # <<>>
        /\ C20_OnlyWhitespace(last.path))
       => /\ last.status = HTTP_400_BAD_REQUEST
          /\ result.status = HTTP_400_BAD_REQUEST

\* an upload of a good file name refused for its folder path of one space,
\* on a disk that holds entries
C20_Witness ==
    /\ last.op = "upload_file"
    /\ last.path = <<" ">>
    /\ ~FilenameEmpty(last.filename)
    /\ ~FilenameTraversal(last.filename)
    /\ last.status = HTTP_400_BAD_REQUEST
    /\ Entries(fs) # {}

----------------------------------------------------------------------------
(* Properties of the HTTP routes *)

\* the routes that change the disk
MutationRoutes ==
    { "POST /api/folders/create", "DELETE /api/folders/delete",
      "POST /api/files/upload", "DELETE /api/files/delete" }

\* C21: a request to a mutation route (create folder, delete folder, upload
\* file, delete file) that carries no valid bearer token is rejected (401 or
\* 403) and changes nothing on the disk.
C21_MutationsGated ==
    (last.op \in MutationRoutes /\ credentials # "valid")
    => /\ last.status \in {HTTP_401_UNAUTHORIZED, HTTP_403_FORBIDDEN}
       /\ fs = pre

----------------------------------------------------------------------------
(* Properties of the tree's construction *)

\* the items the last get_tree call walked over, had the disk yielded the
\* entries in the given order
WalkedItems(order) == TreeItems(fs, order, ViewBase)

\* C22: whatever the base path of get_tree (the storage root or a folder
\* beneath it) and whatever order the disk yields the entries in, no item
\* takes the orphan branch: every item deeper than the first level finds the
\* node of its parent path.
C22_NoOrphanBranch ==
    TreeBuilt =>
        \A order \in EnumerationOrders(fs, links, last.path) :
            \A i \in 1..Len(WalkedItems(order)) :
                ~IsOrphan(BuildTree(WalkedItems(order), i - 1), WalkedItems(order), i)

\* the nodes are, one for one, the entries directly inside directory d, each
\* with its kind, and so on beneath every folder node
RECURSIVE Mirrors(_, _)
Mirrors(nodes, d) ==
    /\ Len(nodes) = Cardinality(Children(fs, d))
    /\ {nodes[i].name : i \in 1..Len(nodes)} = {q[Len(q)] : q \in Children(fs, d)}
    /\ \A i \in 1..Len(nodes) :
           LET q == Append(d, nodes[i].name) IN
           /\ q \in DOMAIN fs
           /\ nodes[i].type = (IF is_dir(fs, q) THEN "folder" ELSE "file")
           /\ nodes[i].type = "folder" =>
                  /\ nodes[i].children # None
                  /\ Mirrors(CHOOSE c \in nodes[i].children : TRUE, q)

\* C23: the forest get_tree returns mirrors the directory structure: the
\* root-level nodes are exactly the direct children of the base, the children
\* of each folder node are exactly the entries of its directory, and every
\* entry beneath the base has exactly one node in the forest.
C23_ForestMirrorsDisk ==
    TreeBuilt =>
        /\ Mirrors(result.tree, ViewBase)
        /\ CountNodes(result.tree, "file") + CountNodes(result.tree, "folder")
               = Cardinality(Descendants(fs, ViewBase))

\* the tree route answered with a forest
TreeSent == last.op = "GET /api/files/tree" /\ last.status = HTTP_200_OK

\* C24: in the response of the tree route every folder node carries a list
\* of children, the empty list for an empty folder, never null.
C24_FolderChildrenNeverNull ==
    TreeSent =>
        \A n \in NodesOf(result.tree) : n.type = "folder" => n.children # None

----------------------------------------------------------------------------
(* Properties of the failures *)

\* a file sits at the path or at one of its segments beneath the storage root
C25_FileInTheWay(f, path) ==
    \E k \in (Len(storage_root) + 1)..Len(path) : is_file(f, SubSeq(path, 1, k))

\* C25: for a valid path create_folder either succeeds or fails with 500,
\* and it fails exactly when the disk refuses the creation: the path or one
\* of its intermediate segments is an existing file. The failed call creates
\* no directory and leaves every entry, that file and its bytes included, as
\* it was.
C25_CreateFailsOnlyOnRefusal ==
    (last.op = "create_folder" /\ LastPath.ok) =>
        /\ last.status \in {HTTP_201_CREATED, HTTP_500_INTERNAL_SERVER_ERROR}
        /\ last.status = HTTP_500_INTERNAL_SERVER_ERROR
               <=> C25_FileInTheWay(pre, LastPath.path)
        /\ last.status = HTTP_500_INTERNAL_SERVER_ERROR => fs = pre

\* a create_folder refused because an intermediate segment is a file
C25_Witness ==
    /\ last.op = "create_folder"
    /\ LastPath.ok
    /\ last.status = HTTP_500_INTERNAL_SERVER_ERROR
    /\ \E k \in (Len(storage_root) + 1)..(Len(LastPath.path) - 1) :
           is_file(fs, SubSeq(LastPath.path, 1, k))

\* C26: a call of create_folder, delete_folder, upload_file, delete_file,
\* list_items or get_tree that fails with 400, 404 or 409 leaves the disk
\* beneath the storage root as it was: the same entries, kinds and bytes.
C26_RefusedCallChangesNothing ==
    (/\ last.op \in {"create_folder", "delete_folder", "upload_file",
                     "delete_file", "list_items", "get_tree"}
     /\ last.status \in {HTTP_400_BAD_REQUEST, HTTP_404_NOT_FOUND, HTTP_409_CONFLICT})
    => fs = pre

\* an upload refused with Conflict whose bytes differ from the file's
C26_Witness ==
    /\ last.op = "upload_file"
    /\ last.status = HTTP_409_CONFLICT
    /\ is_file(fs, last.target)
    /\ fs[last.target].data # last.data

----------------------------------------------------------------------------
(* Round trips *)

\* the upload route answered with the path of the file it saved
UploadSent == last.op = "POST /api/files/upload" /\ last.status = HTTP_201_CREATED

\* delete_file called next with the path the upload returned
C27_DeleteUploaded == delete_file(fs, links, result.path)

\* C27: after an upload that succeeds and returns path p, relative to the
\* storage root, delete_file(p) called next succeeds and removes exactly the
\* uploaded file: every other entry stays as it is.
C27_UploadThenDelete ==
    UploadSent =>
        /\ C27_DeleteUploaded.status = HTTP_200_OK
        /\ DOMAIN C27_DeleteUploaded.fs = DOMAIN fs \ {last.target}
        /\ \A q \in DOMAIN C27_DeleteUploaded.fs : C27_DeleteUploaded.fs[q] = fs[q]

\* the list route answered with a listing
ListSent == last.op = "GET /api/files/list" /\ last.status = HTTP_200_OK

\* the entries the last view walked over, and the items it reported
WalkedEntries ==
    IF last.op = "GET /api/files/list" /\ ~last.recursive
    THEN Children(fs, ViewBase)
    ELSE Descendants(fs, ViewBase)
SentItems ==
    IF ListSent THEN {result.items[i] : i \in 1..Len(result.items)}
    ELSE NodesOf(result.tree)

\* item e reports entry q, and the resolver takes its relative_path back to q
C28_ResolvesBack(e, q) ==
    /\ e.name = q[Len(q)]
    /\ e.type = (IF is_dir(fs, q) THEN "folder" ELSE "file")
    /\ e.relative_path = RelativePathStr(q)
    /\ _validate_path(e.relative_path, links).ok
    /\ _validate_path(e.relative_path, links).path = q

\* C28: on a disk whose entries were all made by create_folder and
\* upload_file, every entry a listing or a tree reports has a relative_path
\* that the resolver accepts and takes back to that very entry.
C28_ListedPathsResolveBack ==
    (ListSent \/ TreeSent) =>
        \A q \in WalkedEntries : \E e \in SentItems : C28_ResolvesBack(e, q)

----------------------------------------------------------------------------
(* Calls side by side *)

\* both uploads are over: two calls with one folder and one filename, both
\* with overwrite=false
C29_SameUploadTwice ==
    /\ \A c \in Callers : procs[c].pc = "done" /\ ~procs[c].overwrite
    /\ procs[1].folder = procs[2].folder
    /\ procs[1].filename = procs[2].filename

C29_Succeeded == {c \in Callers : procs[c].status = HTTP_201_CREATED}

\* what the checks of the folder and the filename answer on the disk the two
\* calls began on (no call changes a folder)
C29_Located == locate_upload(pre, links, procs[1].folder, procs[1].filename)

\* C29 as stated: of two uploads of one folder and filename, both with
\* overwrite=false, at most one succeeds, and the file holds the bytes of
\* the one that succeeded.
C29_AtMostOneSucceeds ==
    C29_SameUploadTwice =>
        /\ Cardinality(C29_Succeeded) <= 1
        /\ \A c \in C29_Succeeded : fs[procs[c].file_path].data = procs[c].content

\* C29: two uploads of one folder and filename, both with overwrite=false.
\* When the folder or the filename is refused, both calls fail with that
\* error and the disk is unchanged. Otherwise each call ends with success or
\* Conflict: when an entry of that name was there before both, both fail with
\* Conflict and the disk is unchanged; when none was, at least one succeeds
\* (both may), every byte of the file is the byte a successful upload wrote
\* at that position, and no other entry changes.
C29_AtLeastOneSucceeds ==
    C29_SameUploadTwice =>
        LET file_path == C29_Located.target IN
        IF C29_Located.status # HTTP_200_OK
        THEN /\ \A c \in Callers : procs[c].status = C29_Located.status
             /\ fs = pre
        ELSE /\ \A c \in Callers :
                    procs[c].status \in {HTTP_201_CREATED, HTTP_409_CONFLICT}
             /\ IF exists(pre, file_path)
                THEN C29_Succeeded = {} /\ fs = pre
                ELSE /\ C29_Succeeded # {}
                     /\ is_file(fs, file_path)
                     /\ \A i \in 1..Len(fs[file_path].data) :
                            \E c \in C29_Succeeded :
                                /\ i <= Len(procs[c].content)
                                /\ fs[file_path].data[i] = procs[c].content[i]
                     /\ DOMAIN fs = DOMAIN pre \cup {file_path}
                     /\ \A q \in DOMAIN pre : fs[q] = pre[q]

\* both uploads succeeded, with different bytes
C29_Witness ==
    /\ C29_SameUploadTwice
    /\ C29_Succeeded = Callers
    /\ procs[1].content # procs[2].content

\* the reader's call is over
C30_ReadOver == procs # NoProcs /\ procs.reader.pc = "done"

\* C30: a list_items call with delete_file and delete_folder calls made
\* meanwhile either fails (500 from the disk, or 400/404 for its base) or
\* returns only entries that existed when it began, each with the kind the
\* entry had (a folder is never reported as a file) and with a size for
\* every entry reported as a file.
C30_ReadReportsWhatWasThere ==
    (C30_ReadOver /\ procs.reader.status = HTTP_200_OK) =>
        \A i \in 1..Len(result.items) :
            LET e == result.items[i] IN
            /\ \E q \in Children(pre, procs.reader.path) :
                   /\ e.relative_path = RelativePathStr(q)
                   /\ e.name = q[Len(q)]
                   /\ e.type = (IF is_dir(pre, q) THEN "folder" ELSE "file")
            /\ e.type = "file" => e.size # None

====
